---- MODULE Spec2Model ----
(***************************************************************************)
(* Change detection and reconciliation of chatd-internships:              *)
(* JsonStorageBackend / DatabaseStorageBackend / DataStorage of            *)
(* chatd/storage_abstraction.py and the row conversions of                 *)
(* chatd/database.py.                                                      *)
(*                                                                         *)
(* A listing is a Python dict: a function from the keys it carries to      *)
(* values.  Every value is written as a string ("True", "100", "[SF]"),    *)
(* Python's None as "None"; a key that is absent is not in the DOMAIN.     *)
(***************************************************************************)
EXTENDS Integers, Sequences, FiniteSets, Bags, TLC

\* ------------------------------------------------------------------ bounds
\* send_messages_to_channels is called while fewer messages than this were delivered
MaxSent == 2

\* upstream publishes a listing again while it was reported as added fewer times than this
MaxAdded == 1

\* check_for_new_roles invocations in progress at the same time
MaxTasks == 2

\* longest upstream snapshot / input list
MaxLen == 2

\* longest snapshot handed to the reconciler when ids may repeat
MaxDup == 3
\* latest backend write call of one process_job_changes run that may fail
MaxFault == 2
\* runs of one behaviour into which a failure is injected
MaxInjected == 1
\* last second of the clock
MaxTime == 2

\* ------------------------------------------------------------------ values
None == "None"

Range(s) == {s[i] : i \in 1..Len(s)}

\* dict.get(field): the value, or None when the key is absent
Get(job, field) == IF field \in DOMAIN job THEN job[field] ELSE None

\* key_fields without is_visible
KeyFields_NoVisible == <<"active", "date_updated">>

\* key_fields of detect_job_changes
KeyFields == <<"active", "is_visible", "date_updated">>

\* all_fields without title
AllFields_NoTitle == <<"url", "company_name", "sponsorship", "source", "date_posted", "company_url", "locations", "terms">>

\* all_fields of detect_job_changes
AllFields == <<"url", "company_name", "title", "sponsorship", "source", "date_posted", "company_url", "locations", "terms">>

\* ------------------------------------------------------------------ inputs
\* a listing as the feed carries it (the keys of the tests' sample_jobs)
Job(id, active, visible, updated, title) ==
    [id |-> id, date_updated |-> updated, url |-> "u_" \o id, company_name |-> "C_" \o id, title |-> title, active |-> active, is_visible |-> visible, locations |-> "[SF]", terms |-> "[Summer]"]

\* the same dict without one key
Without(job, field) == [f \in DOMAIN job \ {field} |-> job[f]]

\* the listings upstream may publish
Listings ==
    { Job("a", "False", "True", "100", "T2"),
      Without(Job("a", "True", "True", "200", "T1"), "active"),
      Job("b", "True", "True", "100", "T1"),
      Job("b", "True", "False", "100", "T1") }

\* the listings detect_job_changes is called on directly: also a listing that
\* differs from another in a secondary field only, and one that differs in all
DetectListings ==
    Listings \cup { Job("a", "True", "True", "100", "T1"), Job("a", "True", "True", "100", "T2"), Job("a", "False", "False", "200", "T2") }

\* what the storage API is called with directly: two listings, the ids and
\* the patch of test_json_update_job_posting, message and channel ids
StoreListings == { Job("a", "True", "True", "100", "T1"), Job("b", "True", "True", "100", "T1") }

StoreIds == {"a", "b"}

\* the ids of the listings the bot handles
ListingIds == StoreIds \cup {"c"}

StoreUpdates == { [active |-> "False"] }

MessageIds == {"m1", "m2"}

ChannelIds == {"c1"}

\* lists of at most n listings
RECURSIVE SeqsUpTo(_, _)
SeqsUpTo(S, n) ==
    IF n = 0 THEN {<<>>}
    ELSE LET shorter == SeqsUpTo(S, n - 1)
         IN  shorter \cup {Append(s, x) : s \in {t \in shorter : Len(t) = n - 1}, x \in S}

Snapshots == SeqsUpTo(DetectListings, MaxLen)

StoreSnapshots == SeqsUpTo(StoreListings, MaxLen)

\* the dicts save_message_tracking is called with
StoreTrackings ==
    { <<>>, <<[job_id |-> "a", message_id |-> "m1", channel_id |-> "c1"]>> }

\* --------------------------------------------------------- change detection
\* the ids of a loop over the list instead of over the dict built from it
DictKeys_EveryEntry(jobs) == [i \in 1..Len(jobs) |-> jobs[i].id]

\* keys of {job['id']: job for job in jobs}, in dict (first insertion) order
RECURSIVE DictKeys(_)
DictKeys(jobs) ==
    IF jobs = <<>> THEN <<>>
    ELSE LET front == DictKeys(SubSeq(jobs, 1, Len(jobs) - 1))
             id == jobs[Len(jobs)].id
         IN  IF id \in Range(front) THEN front ELSE Append(front, id)

\* a lookup in which the first entry with the id is kept
DictGet_FirstWins(jobs, id) ==
    jobs[CHOOSE i \in 1..Len(jobs) : jobs[i].id = id /\ \A j \in 1..(i - 1) : jobs[j].id # id]

\* value of {job['id']: job for job in jobs}[id]: a later entry overwrites
DictGet(jobs, id) ==
    jobs[CHOOSE i \in 1..Len(jobs) : jobs[i].id = id /\ \A j \in (i + 1)..Len(jobs) : jobs[j].id # id]

Ids(jobs) == {jobs[i].id : i \in 1..Len(jobs)}

\* the keys of a message tracking dict
TrackedIds(message_tracking) == {message_tracking[i].job_id : i \in 1..Len(message_tracking)}

\* the fields of a list of field names whose .get() values differ
Differing(fields, current_job, previous_job) ==
    {f \in Range(fields) : Get(current_job, f) # Get(previous_job, f)}

\* job_changes that compares every field whether or not date_updated changed
JobChanges_AlwaysAll(current_job, previous_job) ==
    LET key == Differing(KeyFields, current_job, previous_job)
        rest == Differing(AllFields, current_job, previous_job)
    IN  [f \in key \cup rest |-> [old |-> Get(previous_job, f), new |-> Get(current_job, f)]]

\* job_changes with old and new taken from the wrong listing
JobChanges_Swapped(current_job, previous_job) ==
    LET key == Differing(KeyFields, current_job, previous_job)
        rest == IF "date_updated" \in key THEN Differing(AllFields, current_job, previous_job) ELSE {}
    IN  [f \in key \cup rest |-> [old |-> Get(current_job, f), new |-> Get(previous_job, f)]]

\* job_changes of one listing present in both snapshots
JobChanges(current_job, previous_job) ==
    LET key == Differing(KeyFields, current_job, previous_job)
        rest == IF "date_updated" \in key THEN Differing(AllFields, current_job, previous_job) ELSE {}
    IN  [f \in key \cup rest |-> [old |-> Get(previous_job, f), new |-> Get(current_job, f)]]

\* [F(x) for x in s if P(x)] helpers over id lists
RECURSIVE AddedFrom(_, _, _)
AddedFrom(keys, jobs, others) ==
    IF keys = <<>> THEN <<>>
    ELSE LET tail == AddedFrom(Tail(keys), jobs, others)
         IN  IF Head(keys) \notin Ids(others) THEN <<DictGet(jobs, Head(keys))>> \o tail ELSE tail

RECURSIVE UpdatedFrom(_, _, _)
UpdatedFrom(keys, current_jobs, previous_jobs) ==
    IF keys = <<>> THEN <<>>
    ELSE LET tail == UpdatedFrom(Tail(keys), current_jobs, previous_jobs)
             id == Head(keys)
         IN  IF id \in Ids(previous_jobs)
             THEN LET current_job == DictGet(current_jobs, id)
                      job_changes == JobChanges(current_job, DictGet(previous_jobs, id))
                  IN  IF DOMAIN job_changes # {}
                      THEN <<[job |-> current_job, changes |-> job_changes]>> \o tail
                      ELSE tail
             ELSE tail

\* detect_job_changes whose removed loop runs over the current snapshot
Json_detect_job_changes_RemovedFromCurrent(current_jobs, previous_jobs) ==
    [added |-> AddedFrom(DictKeys(current_jobs), current_jobs, previous_jobs),
     updated |-> UpdatedFrom(DictKeys(current_jobs), current_jobs, previous_jobs),
     removed |-> AddedFrom(DictKeys(current_jobs), current_jobs, previous_jobs)]

\* JsonStorageBackend.detect_job_changes
Json_detect_job_changes(current_jobs, previous_jobs) ==
    [added |-> AddedFrom(DictKeys(current_jobs), current_jobs, previous_jobs),
     updated |-> UpdatedFrom(DictKeys(current_jobs), current_jobs, previous_jobs),
     removed |-> AddedFrom(DictKeys(previous_jobs), previous_jobs, current_jobs)]

\* DatabaseStorageBackend.detect_job_changes ("same logic as JSON backend")
Db_detect_job_changes(current_jobs, previous_jobs) ==
    [added |-> AddedFrom(DictKeys(current_jobs), current_jobs, previous_jobs),
     updated |-> UpdatedFrom(DictKeys(current_jobs), current_jobs, previous_jobs),
     removed |-> AddedFrom(DictKeys(previous_jobs), previous_jobs, current_jobs)]

NoChanges == [added |-> <<>>, updated |-> <<>>, removed |-> <<>>]

\* ------------------------------------------------------------ JSON backend
\* job[field] = value for field, value in updates.items()
Merge(job, updates) ==
    [f \in DOMAIN job \cup DOMAIN updates |-> IF f \in DOMAIN updates THEN updates[f] ELSE job[f]]

\* JsonStorageBackend.get_job_postings: the document, [] when there is none
Json_get_job_postings(file) == file

\* the backup a save makes: the document renamed away, none when there was no
\* document (a document that reads back as [] counts as none)
NoBackup == [made |-> FALSE, content |-> <<>>]

Renamed(file) == [made |-> file # <<>>, content |-> file]

\* JsonStorageBackend.save_job_postings; failure is where the I/O raises:
\* "rename" (the backup rename: the document is untouched) or "write" (after
\* the rename: the document is gone and reads back as [])
Json_save_job_postings(file, job_postings, failure) ==
    CASE failure = "none" -> [file |-> job_postings, ok |-> TRUE, backup |-> Renamed(file)]
      [] failure = "rename" -> [file |-> file, ok |-> FALSE, backup |-> NoBackup]
      [] OTHER -> [file |-> <<>>, ok |-> FALSE, backup |-> Renamed(file)]

\* update_job_posting that saves what it read even when the id is not there
Json_update_job_posting_SavesAnyway(file, job_id, updates, failure) ==
    LET job_postings == Json_get_job_postings(file)
    IN  IF job_id \notin Ids(job_postings)
        THEN [Json_save_job_postings(file, job_postings, failure) EXCEPT !.ok = FALSE]
        ELSE LET i == CHOOSE k \in 1..Len(job_postings) :
                          job_postings[k].id = job_id /\ \A j \in 1..(k - 1) : job_postings[j].id # job_id
             IN  Json_save_job_postings(file, [job_postings EXCEPT ![i] = Merge(@, updates)], failure)

\* JsonStorageBackend.update_job_posting: first match, then a full save
Json_update_job_posting(file, job_id, updates, failure) ==
    LET job_postings == Json_get_job_postings(file)
    IN  IF job_id \notin Ids(job_postings)
        THEN [file |-> file, ok |-> FALSE, backup |-> NoBackup]
        ELSE LET i == CHOOSE k \in 1..Len(job_postings) :
                          job_postings[k].id = job_id /\ \A j \in 1..(k - 1) : job_postings[j].id # job_id
             IN  Json_save_job_postings(file, [job_postings EXCEPT ![i] = Merge(@, updates)], failure)

\* JsonStorageBackend.get_job_posting_by_id: the first match, None without one
Json_get_job_posting_by_id(file, job_id) ==
    LET job_postings == Json_get_job_postings(file)
    IN  IF job_id \notin Ids(job_postings)
        THEN [found |-> FALSE, job |-> <<>>]
        ELSE [found |-> TRUE,
              job |-> job_postings[CHOOSE k \in 1..Len(job_postings) :
                          job_postings[k].id = job_id /\ \A j \in 1..(k - 1) : job_postings[j].id # job_id]]

\* the message tracking dict is a list of entries [job_id, message_id,
\* channel_id] in insertion order, one per key job_id
\* message_tracking[job_id] = {...}: a key already there keeps its place
DictSet(message_tracking, entry) ==
    IF entry.job_id \in TrackedIds(message_tracking)
    THEN [i \in 1..Len(message_tracking) |->
              IF message_tracking[i].job_id = entry.job_id THEN entry ELSE message_tracking[i]]
    ELSE Append(message_tracking, entry)

\* JsonStorageBackend.get_message_tracking: the document, {} when there is none
Json_get_message_tracking(messages) == messages

\* JsonStorageBackend.save_message_tracking: rename to a backup, then write
Json_save_message_tracking(messages, message_tracking, failure) ==
    CASE failure = "none" -> [messages |-> message_tracking, ok |-> TRUE, backup |-> Renamed(messages)]
      [] failure = "rename" -> [messages |-> messages, ok |-> FALSE, backup |-> NoBackup]
      [] OTHER -> [messages |-> <<>>, ok |-> FALSE, backup |-> Renamed(messages)]

\* JsonStorageBackend.add_message_tracking: no look at the listings
Json_add_message_tracking(messages, job_id, message_id, channel_id, failure) ==
    LET message_tracking == Json_get_message_tracking(messages)
        entry == [job_id |-> job_id, message_id |-> message_id, channel_id |-> channel_id]
    IN  Json_save_message_tracking(messages, DictSet(message_tracking, entry), failure)

\* -------------------------------------------------------- database backend
\* columns of job_postings plus the two child tables
DbColumns == {"id", "date_updated", "url", "company_name", "title", "sponsorship", "active", "source", "date_posted", "company_url", "is_visible", "locations", "terms"}

\* job_data['...'] lookups of job_posting_from_dict that raise KeyError
RequiredKeys == {"id", "date_updated", "url", "company_name", "title"}

\* nullable=False columns of JobPosting
NotNullColumns == {"date_updated", "url", "company_name", "title"}

\* job_posting_from_dict: the row (with its child rows) of one dict
job_posting_from_dict(job_data) ==
    [c \in DbColumns |->
        CASE c \in {"active", "is_visible"} -> IF c \in DOMAIN job_data THEN job_data[c] ELSE "True"
          [] c \in {"locations", "terms"} -> IF c \in DOMAIN job_data THEN job_data[c] ELSE "[]"
          [] OTHER -> Get(job_data, c)]

\* job_posting_to_dict: the dict of one row, every column a key
job_posting_to_dict(job_posting) == [c \in DbColumns |-> job_posting[c]]

\* what the commit of session_scope accepts: primary key, unique url, NOT NULL
Committable(rows) ==
    /\ \A i, j \in 1..Len(rows) : i # j => rows[i].id # rows[j].id /\ rows[i].url # rows[j].url
    /\ \A i \in 1..Len(rows) : \A c \in NotNullColumns : rows[i][c] # None

\* DatabaseStorageBackend.get_job_postings
Db_get_job_postings(rows) == [i \in 1..Len(rows) |-> job_posting_to_dict(rows[i])]

\* DatabaseStorageBackend.save_job_postings: delete all, insert all, in one
\* transaction; anything that raises rolls it back
Db_save_job_postings(rows, job_postings, failure) ==
    IF \/ failure
       \/ \E i \in 1..Len(job_postings) : ~(RequiredKeys \subseteq DOMAIN job_postings[i])
    THEN [rows |-> rows, ok |-> FALSE]
    ELSE LET inserted == [i \in 1..Len(job_postings) |-> job_posting_from_dict(job_postings[i])]
         IN  IF Committable(inserted) THEN [rows |-> inserted, ok |-> TRUE] ELSE [rows |-> rows, ok |-> FALSE]

\* DatabaseStorageBackend.update_job_posting: setattr per known column
Db_update_job_posting(rows, job_id, updates, failure) ==
    IF failure \/ job_id \notin Ids(rows)
    THEN [rows |-> rows, ok |-> FALSE]
    ELSE LET i == CHOOSE k \in 1..Len(rows) : rows[k].id = job_id
             iterable == \A c \in {"locations", "terms"} \cap DOMAIN updates : updates[c] # None
             row == [c \in DbColumns |-> IF c \in DOMAIN updates THEN updates[c] ELSE rows[i][c]]
             updated == [rows EXCEPT ![i] = row]
         IN  IF iterable /\ Committable(updated) THEN [rows |-> updated, ok |-> TRUE] ELSE [rows |-> rows, ok |-> FALSE]

\* DatabaseStorageBackend.get_job_posting_by_id
Db_get_job_posting_by_id(rows, job_id) ==
    IF job_id \notin Ids(rows)
    THEN [found |-> FALSE, job |-> <<>>]
    ELSE [found |-> TRUE, job |-> job_posting_to_dict(rows[CHOOSE k \in 1..Len(rows) : rows[k].id = job_id])]

\* message_tracking rows left by a save_job_postings: the DELETE of every
\* job_postings row takes the tracking rows with it (ondelete='CASCADE'),
\* a rollback brings them back
Db_tracking_after_save(tracking, saved) == IF saved THEN <<>> ELSE tracking

\* DatabaseStorageBackend.get_message_tracking
Db_get_message_tracking(tracking) == tracking

\* DatabaseStorageBackend.save_message_tracking: delete all, insert all; a
\* row whose job posting does not exist fails the commit (foreign key)
Db_save_message_tracking(rows, tracking, message_tracking, failure) ==
    IF failure \/ ~(TrackedIds(message_tracking) \subseteq Ids(rows))
    THEN [tracking |-> tracking, ok |-> FALSE]
    ELSE [tracking |-> message_tracking, ok |-> TRUE]

\* DatabaseStorageBackend.add_message_tracking: job_exists, then add or update
\* add_message_tracking without the job_exists query
Db_add_message_tracking_NoCheck(rows, tracking, job_id, message_id, channel_id, failure) ==
    IF failure
    THEN [tracking |-> tracking, ok |-> FALSE]
    ELSE [tracking |-> DictSet(tracking, [job_id |-> job_id, message_id |-> message_id, channel_id |-> channel_id]),
          ok |-> TRUE]

Db_add_message_tracking(rows, tracking, job_id, message_id, channel_id, failure) ==
    IF failure \/ job_id \notin Ids(rows)
    THEN [tracking |-> tracking, ok |-> FALSE]
    ELSE [tracking |-> DictSet(tracking, [job_id |-> job_id, message_id |-> message_id, channel_id |-> channel_id]),
          ok |-> TRUE]

\* -------------------------------------------------------------- DataStorage
Modes == {"json_only", "dual_write", "database_only"}

\* DataStorage.__init__: the mode after the connectivity probe
\* a constructor that keeps the configured mode when the probe fails
InitMode_NoFallback(configured, probe_ok) == configured

InitMode(configured, probe_ok) ==
    IF configured \in {"dual_write", "database_only"} /\ ~probe_ok THEN "json_only" ELSE configured

\* the failure injected into one run: the at-th backend write call raises
\* (0: none); kind says where a JSON save raises
Faults == {[at |-> 0, kind |-> "rename"]} \cup [at : 1..MaxFault, kind : {"rename", "write"}]

JsonFailure(fault, n) == IF fault.at = n THEN fault.kind ELSE "none"

DbFailure(fault, n) == fault.at = n

\* success of a coordinator write: a backend that reports failure sets it False
\* without success == json_success or db_success
Success_Either(json_success, db_success) == json_success \/ db_success

Success(json_success, db_success) == json_success /\ db_success

\* the backend methods one coordinator call invokes, in call order: the
\* backend, the method, what it returned and whether it renamed a document
BackendCall(backend, op, ok, rotated) == [backend |-> backend, op |-> op, ok |-> ok, rotated |-> rotated]

BackendCalls(use_json, use_db, op, j, d) ==
    (IF use_json THEN <<BackendCall("json", op, j.ok, j.backup.made)>> ELSE <<>>)
        \o (IF use_db THEN <<BackendCall("database", op, d.ok, FALSE)>> ELSE <<>>)

\* a read routed to the relational backend in dual_write as well
ReadBackend_DualReadsDatabase(mode) == IF mode \in {"database_only", "dual_write"} THEN "database" ELSE "json"

\* the backend a coordinator read goes to: if self.migration_mode ==
\* 'database_only' ... else "json_only and dual_write both read from JSON"
ReadBackend(mode) == IF mode = "database_only" THEN "database" ELSE "json"

\* DataStorage.get_job_postings
get_job_postings(mode, st) ==
    IF ReadBackend(mode) = "database" THEN Db_get_job_postings(st.db) ELSE Json_get_job_postings(st.json)

\* backup_file = f"{self.data_file}.backup.{int(time.time())}" and the rename
\* to it, which replaces a backup of the same second
BackupsAfter(files, second, backup) ==
    IF backup.made
    THEN [t \in DOMAIN files \cup {second} |-> IF t = second THEN backup.content ELSE files[t]]
    ELSE files

\* the running state of one coordinator call or run: the documents and
\* tables, the backups and the clock, the count n of backend write calls so
\* far, the result of the latest call and the logs
Running(json, db, messages, tracking, files, second) ==
    [json |-> json, db |-> db, messages |-> messages, tracking |-> tracking, backups |-> files, now |-> second,
     n |-> 0, ok |-> TRUE, calls |-> <<>>, backend_calls |-> <<>>, update_failures |-> <<>>, success |-> TRUE]

\* DataStorage.save_job_postings on the running state st
save_job_postings(mode, st, job_postings, fault) ==
    LET use_json == mode \in {"json_only", "dual_write"}
        use_db == mode \in {"dual_write", "database_only"}
        n1 == IF use_json THEN st.n + 1 ELSE st.n
        n2 == IF use_db THEN n1 + 1 ELSE n1
        j == IF use_json THEN Json_save_job_postings(st.json, job_postings, JsonFailure(fault, n1))
             ELSE [file |-> st.json, ok |-> TRUE, backup |-> NoBackup]
        d == IF use_db THEN Db_save_job_postings(st.db, job_postings, DbFailure(fault, n2))
             ELSE [rows |-> st.db, ok |-> TRUE]
        ok == Success(j.ok, d.ok)
    IN  [st EXCEPT !.json = j.file, !.db = d.rows, !.n = n2, !.ok = ok,
                   !.tracking = IF use_db THEN Db_tracking_after_save(@, d.ok) ELSE @,
                   !.backups = BackupsAfter(@, st.now, j.backup),
                   !.calls = Append(@, [op |-> "save", job_postings |-> job_postings, ok |-> ok, json |-> j.file, db |-> d.rows]),
                   !.backend_calls = @ \o BackendCalls(use_json, use_db, "save_job_postings", j, d)]

\* DataStorage.update_job_posting
update_job_posting(mode, st, job_id, updates, fault) ==
    LET use_json == mode \in {"json_only", "dual_write"}
        use_db == mode \in {"dual_write", "database_only"}
        n1 == IF use_json THEN st.n + 1 ELSE st.n
        n2 == IF use_db THEN n1 + 1 ELSE n1
        j == IF use_json THEN Json_update_job_posting(st.json, job_id, updates, JsonFailure(fault, n1))
             ELSE [file |-> st.json, ok |-> TRUE, backup |-> NoBackup]
        d == IF use_db THEN Db_update_job_posting(st.db, job_id, updates, DbFailure(fault, n2))
             ELSE [rows |-> st.db, ok |-> TRUE]
        ok == Success(j.ok, d.ok)
    IN  [st EXCEPT !.json = j.file, !.db = d.rows, !.n = n2, !.ok = ok,
                   !.backups = BackupsAfter(@, st.now, j.backup),
                   !.calls = Append(@, [op |-> "update", job_id |-> job_id, updates |-> updates, ok |-> ok, json |-> j.file, db |-> d.rows]),
                   !.backend_calls = @ \o BackendCalls(use_json, use_db, "update_job_posting", j, d)]

\* DataStorage.save_message_tracking
save_message_tracking(mode, st, message_tracking, fault) ==
    LET use_json == mode \in {"json_only", "dual_write"}
        use_db == mode \in {"dual_write", "database_only"}
        n1 == IF use_json THEN st.n + 1 ELSE st.n
        n2 == IF use_db THEN n1 + 1 ELSE n1
        j == IF use_json THEN Json_save_message_tracking(st.messages, message_tracking, JsonFailure(fault, n1))
             ELSE [messages |-> st.messages, ok |-> TRUE, backup |-> NoBackup]
        d == IF use_db THEN Db_save_message_tracking(st.db, st.tracking, message_tracking, DbFailure(fault, n2))
             ELSE [tracking |-> st.tracking, ok |-> TRUE]
        ok == Success(j.ok, d.ok)
    IN  [st EXCEPT !.messages = j.messages, !.tracking = d.tracking, !.n = n2, !.ok = ok,
                   !.backend_calls = @ \o BackendCalls(use_json, use_db, "save_message_tracking", j, d)]

\* DataStorage.add_message_tracking
add_message_tracking(mode, st, job_id, message_id, channel_id, fault) ==
    LET use_json == mode \in {"json_only", "dual_write"}
        use_db == mode \in {"dual_write", "database_only"}
        n1 == IF use_json THEN st.n + 1 ELSE st.n
        n2 == IF use_db THEN n1 + 1 ELSE n1
        j == IF use_json THEN Json_add_message_tracking(st.messages, job_id, message_id, channel_id, JsonFailure(fault, n1))
             ELSE [messages |-> st.messages, ok |-> TRUE, backup |-> NoBackup]
        d == IF use_db THEN Db_add_message_tracking(st.db, st.tracking, job_id, message_id, channel_id, DbFailure(fault, n2))
             ELSE [tracking |-> st.tracking, ok |-> TRUE]
        ok == Success(j.ok, d.ok)
    IN  [st EXCEPT !.messages = j.messages, !.tracking = d.tracking, !.n = n2, !.ok = ok,
                   !.backend_calls = @ \o BackendCalls(use_json, use_db, "add_message_tracking", j, d)]

\* DataStorage.get_message_tracking
get_message_tracking(mode, st) ==
    IF ReadBackend(mode) = "database" THEN Db_get_message_tracking(st.tracking) ELSE Json_get_message_tracking(st.messages)

\* DataStorage.get_job_posting_by_id
get_job_posting_by_id(mode, st, job_id) ==
    IF ReadBackend(mode) = "database" THEN Db_get_job_posting_by_id(st.db, job_id) ELSE Json_get_job_posting_by_id(st.json, job_id)

\* DataStorage.detect_job_changes: previous snapshot from the read backend
detect_job_changes(mode, st, current_jobs) ==
    LET previous_jobs == get_job_postings(mode, st)
    IN  IF ReadBackend(mode) = "database"
        THEN Db_detect_job_changes(current_jobs, previous_jobs)
        ELSE Json_detect_job_changes(current_jobs, previous_jobs)

\* an updates argument that is always the selective patch
UpdatePayload_AlwaysSelective(update_info) ==
    [f \in DOMAIN update_info.changes |-> update_info.changes[f].new]

\* the updates argument process_job_changes passes for one updated entry
UpdatePayload(update_info) ==
    IF "date_updated" \in DOMAIN update_info.changes
    THEN update_info.job
    ELSE [f \in DOMAIN update_info.changes |-> update_info.changes[f].new]

UpdateReason(update_info) ==
    IF "date_updated" \in DOMAIN update_info.changes THEN "full_update_failed" ELSE "selective_update_failed"

\* the update loop of process_job_changes: a failure is recorded, the loop goes on
\* a failed update is noted in update_failures and clears success
UpdateNoted(after, update_info) ==
    IF after.ok THEN after
    ELSE [after EXCEPT !.update_failures = Append(@, [job_id |-> update_info.job.id, reason |-> UpdateReason(update_info)]),
                       !.success = FALSE]

\* a failed save clears success
SaveNoted(after) == IF after.ok THEN after ELSE [after EXCEPT !.success = FALSE]

RECURSIVE ProcessUpdates(_, _, _, _)
ProcessUpdates(mode, st, updated, fault) ==
    IF updated = <<>> THEN st
    ELSE ProcessUpdates(mode,
                        UpdateNoted(update_job_posting(mode, st, Head(updated).job.id, UpdatePayload(Head(updated)), fault),
                                    Head(updated)),
                        Tail(updated), fault)

\* an added phase that saves after every single added listing
RECURSIVE ProcessAdded_OneByOne(_, _, _, _)
ProcessAdded_OneByOne(mode, st, added, fault) ==
    IF added = <<>> THEN st
    ELSE ProcessAdded_OneByOne(mode,
                               SaveNoted(save_job_postings(mode, st, Append(get_job_postings(mode, st), Head(added)), fault)),
                               Tail(added), fault)

\* the added phase: one save of the stored listings plus the added ones
ProcessAdded(mode, st, added, fault) ==
    IF added = <<>> THEN st
    ELSE SaveNoted(save_job_postings(mode, st, get_job_postings(mode, st) \o added, fault))

\* the removed phase: one save of the stored listings without the removed ids
ProcessRemoved(mode, st, removed, fault) ==
    IF removed = <<>> THEN st
    ELSE LET current_stored_jobs == get_job_postings(mode, st)
             removed_ids == Ids(removed)
             filtered_jobs == SelectSeq(current_stored_jobs, LAMBDA job : job.id \notin removed_ids)
         IN  SaveNoted(save_job_postings(mode, st, filtered_jobs, fault))

\* DataStorage.process_job_changes: the documents afterwards, the results
\* dict, and what the run read, detected and called
RunResults(mode, st0, changes, st3, fault) ==
    [json |-> st3.json, db |-> st3.db,
     results |-> [added_count |-> Len(changes.added), updated_count |-> Len(changes.updated),
                  removed_count |-> Len(changes.removed), update_failures |-> st3.update_failures,
                  success |-> st3.success],
     changes |-> changes,
     previous |-> get_job_postings(mode, st0),
     calls |-> st3.calls,
     faulted |-> fault.at > 0 /\ fault.at <= st3.n,
     tracking |-> st3.tracking,
     backups |-> st3.backups,
     backend_calls |-> <<BackendCall(ReadBackend(mode), "get_job_postings", TRUE, FALSE),
                         BackendCall(ReadBackend(mode), "detect_job_changes", TRUE, FALSE)>> \o st3.backend_calls]

\* the three phases in the order of the code: updates, additions, removals
ProcessPhases(mode, st0, changes, fault) ==
    RunResults(mode, st0, changes,
               ProcessRemoved(mode,
                              ProcessAdded(mode, ProcessUpdates(mode, st0, changes.updated, fault), changes.added, fault),
                              changes.removed, fault),
               fault)

process_job_changes_on(mode, st0, current_jobs, fault) ==
    ProcessPhases(mode, st0, detect_job_changes(mode, st0, current_jobs), fault)

\* the run as the reconciliation cycle sees it: the listings documents only
process_job_changes(mode, json, db, current_jobs, fault) ==
    process_job_changes_on(mode, Running(json, db, <<>>, <<>>, <<>>, 1), current_jobs, fault)

\* DataStorage.health_check: every attached backend is asked
health_check(mode, st) ==
    [st EXCEPT !.backend_calls = @ \o BackendCalls(mode \in {"json_only", "dual_write"}, mode \in {"dual_write", "database_only"},
                                                   "health_check", [ok |-> TRUE, backup |-> NoBackup], [ok |-> TRUE])]

\* a coordinator read: the value and the one backend method behind it
Read(mode, op, value) ==
    [value |-> value, backend_calls |-> <<BackendCall(ReadBackend(mode), op, TRUE, FALSE)>>]

\* a reconciler that keeps the snapshot it was given as the new previous one
detect_job_changes_on_KeepsSnapshot(mode, st, current_jobs) ==
    [json |-> IF mode \in {"json_only", "dual_write"} THEN current_jobs ELSE st.json,
     db |-> st.db, messages |-> st.messages, tracking |-> st.tracking, backups |-> st.backups, ok |-> TRUE,
     previous_jobs |-> get_job_postings(mode, st),
     changes |-> detect_job_changes(mode, st, current_jobs),
     backend_calls |-> st.backend_calls \o Read(mode, "get_job_postings", <<>>).backend_calls
                           \o Read(mode, "detect_job_changes", <<>>).backend_calls]

\* DataStorage.detect_job_changes on the running state st: what it leaves in
\* the documents and tables, the previous snapshot it read, the change set
\* and the backend methods it called
detect_job_changes_on(mode, st, current_jobs) ==
    [json |-> st.json, db |-> st.db, messages |-> st.messages, tracking |-> st.tracking, backups |-> st.backups, ok |-> TRUE,
     previous_jobs |-> get_job_postings(mode, st),
     changes |-> detect_job_changes(mode, st, current_jobs),
     backend_calls |-> st.backend_calls \o Read(mode, "get_job_postings", <<>>).backend_calls
                           \o Read(mode, "detect_job_changes", <<>>).backend_calls]

\* get_role_data_by_message_id: the first tracking entry with the message id
\* whose job_id is in the listings file, None without one
get_role_data_by_message_id(all_data, message_tracking, message_id) ==
    LET hits == {i \in 1..Len(message_tracking) :
                    /\ message_tracking[i].message_id = message_id
                    /\ message_tracking[i].job_id \in Ids(all_data)}
    IN  IF hits = {}
        THEN [found |-> FALSE, job |-> <<>>]
        ELSE LET i == CHOOSE k \in hits : \A j \in hits : k <= j
                 job_id == message_tracking[i].job_id
             IN  [found |-> TRUE,
                  job |-> all_data[CHOOSE k \in 1..Len(all_data) :
                              all_data[k].id = job_id /\ \A j \in 1..(k - 1) : all_data[j].id # job_id]]

\* ------------------------------------------------------------------ bot.py
\* config.channel_ids
channel_ids == <<"c1", "c2">>

Channels == {channel_ids[i] : i \in 1..Len(channel_ids)}

\* config.max_retries
max_retries == 2

\* what Discord does with one send_message call: the message is sent,
\* fetch_channel raises NotFound or Forbidden, or fetch_channel or
\* channel.send raises another exception
DiscordOutcomes == {"sent", "not_found", "forbidden", "error"}

\* no write of add_message_tracking fails
NoFault == [at |-> 0, kind |-> "rename"]

\* the state send_message calls run on: the two module globals, the store,
\* the messages Discord accepted, what each send_message call returned, the
\* add_message_tracking calls made, the role keys
\* send_messages_to_channels was called with, and the channels
\* bot.get_channel was called for
Sending(failed, counts, st, accepted) ==
    [failed_channels |-> failed, channel_failure_counts |-> counts, st |-> st, delivered |-> accepted,
     calls |-> <<>>, tracking_calls |-> <<>>, handed |-> <<>>, attempts |-> <<>>]

\* bot.get_channel(int(channel_id)), the first step towards Discord
Attempted(b, channel_id) == [b EXCEPT !.attempts = Append(@, channel_id)]

\* return value of send_message
Returned(b, channel_id, value) ==
    [b EXCEPT !.calls = Append(@, [channel_id |-> channel_id, returned |-> value])]

\* one more failure of the channel, which is given up at max_retries
CountFailure(b, channel_id) ==
    LET count == b.channel_failure_counts[channel_id] + 1
    IN  [b EXCEPT !.channel_failure_counts[channel_id] = count,
                  !.failed_channels = IF count >= max_retries THEN @ \cup {channel_id} ELSE @]

\* storage.add_message_tracking(role_key, str(sent_message.id), channel_id)
Tracked(mode, b, role_key, message_id, channel_id) ==
    [b EXCEPT !.st = add_message_tracking(mode, @, role_key, message_id, channel_id, NoFault),
              !.tracking_calls = Append(@, [job_id |-> role_key, message_id |-> message_id, channel_id |-> channel_id])]

\* channel.send(message) and what follows it
Sent(mode, b, message, channel_id, role_key) ==
    LET sent_message == [id |-> "m" \o ToString(Len(b.delivered) + 1), channel_id |-> channel_id, content |-> message]
        accepted == [b EXCEPT !.delivered = Append(@, sent_message)]
        stored == IF role_key # None THEN Tracked(mode, accepted, role_key, sent_message.id, channel_id) ELSE accepted
    IN  Returned([stored EXCEPT !.channel_failure_counts[channel_id] = 0], channel_id, sent_message.id)

\* a send_message that records tracking whether or not the message was sent
send_message_TracksFailures(mode, b, message, channel_id, role_key, outcome) ==
    IF channel_id \in b.failed_channels THEN Returned(b, channel_id, None)
    ELSE IF outcome = "forbidden"
         THEN Returned(Tracked(mode, [b EXCEPT !.failed_channels = @ \cup {channel_id}], role_key, None, channel_id),
                       channel_id, None)
    ELSE IF outcome \in {"not_found", "error", "send_forbidden"}
         THEN Returned(Tracked(mode, CountFailure(b, channel_id), role_key, None, channel_id), channel_id, None)
    ELSE Sent(mode, b, message, channel_id, role_key)

\* a send_message that tries a channel again although it was given up
send_message_RetriesFailed(mode, b, message, channel_id, role_key, outcome) ==
    IF outcome = "forbidden"
    THEN Returned([Attempted(b, channel_id) EXCEPT !.failed_channels = @ \cup {channel_id}], channel_id, None)
    ELSE IF outcome \in {"not_found", "error", "send_forbidden"}
         THEN Returned(CountFailure(Attempted(b, channel_id), channel_id), channel_id, None)
    ELSE Sent(mode, Attempted(b, channel_id), message, channel_id, role_key)

\* send_message(message, channel_id, role_key); a Forbidden raised by
\* channel.send is handled by the outer except, like any other exception
send_message(mode, b, message, channel_id, role_key, outcome) ==
    IF channel_id \in b.failed_channels THEN Returned(b, channel_id, None)
    ELSE IF outcome = "forbidden"
         THEN Returned([Attempted(b, channel_id) EXCEPT !.failed_channels = @ \cup {channel_id}], channel_id, None)
    ELSE IF outcome \in {"not_found", "error", "send_forbidden"}
         THEN Returned(CountFailure(Attempted(b, channel_id), channel_id), channel_id, None)
    ELSE Sent(mode, Attempted(b, channel_id), message, channel_id, role_key)

\* the channels send_messages_to_channels creates a send_message task for
TasksFor(failed) == SelectSeq(channel_ids, LAMBDA channel_id : channel_id \notin failed)

\* the orders in which the tasks of one gather can reach Discord
Orders(tasks) ==
    {order \in [1..Len(tasks) -> 1..Len(tasks)] : \A i, j \in 1..Len(tasks) : i # j => order[i] # order[j]}

\* asyncio.gather(*tasks): every task runs to its end, in the order drawn
RECURSIVE Gather(_, _, _, _, _, _, _)
Gather(mode, b, message, role_key, tasks, order, outcomes) ==
    IF order = <<>> THEN b
    ELSE Gather(mode, send_message(mode, b, message, tasks[Head(order)], role_key, outcomes[tasks[Head(order)]]),
                message, role_key, tasks, Tail(order), outcomes)

\* what a call of this gather returned for the channel
ResultFor(calls, channel_id) ==
    calls[CHOOSE i \in 1..Len(calls) : calls[i].channel_id = channel_id].returned

\* [msg for msg in results if isinstance(msg, discord.Message)]
Messages(tasks, calls) ==
    SelectSeq([i \in 1..Len(tasks) |-> ResultFor(calls, tasks[i])], LAMBDA msg : msg # None)

\* send_messages_to_channels(message, role_key)
send_messages_to_channels(mode, b, message, role_key, order, outcomes) ==
    Gather(mode, [b EXCEPT !.handed = Append(@, role_key)], message, role_key, TasksFor(b.failed_channels), order, outcomes)

\* config.max_post_age_days
max_post_age_days == 1

\* 24 * 60 * 60 seconds, in ticks of the clock
Day == 1

\* the listing with its date_posted
Posted(job, date_posted) ==
    [f \in DOMAIN job \cup {"date_posted"} |-> IF f = "date_posted" THEN date_posted ELSE job[f]]

\* what git does in clone_or_update_repo: it works, clone_from or pull
\* raises, or rev_parse raises after the pull
GitOutcomes == {"ok", "raises", "no_hash"}

\* clone_or_update_repo(): whether it raised, the clone and its listings
\* file afterwards, and the value returned (the blob hash of the file
\* before the pull, read when the file was old, differs from the one after
\* it)
clone_or_update_repo(exists, old, file, origin, git) ==
    IF git = "raises" THEN [raised |-> TRUE, exists |-> exists, file |-> file, was_updated |-> FALSE]
    ELSE IF ~exists THEN [raised |-> FALSE, exists |-> TRUE, file |-> origin, was_updated |-> TRUE]
    ELSE [raised |-> FALSE, exists |-> TRUE, file |-> origin, was_updated |-> (git = "no_hash" \/ old # origin)]

\* a cycle that goes on whenever the fetch did not raise
Proceeds_WithoutUpdates(pulled, read) == ~pulled.raised /\ read = "ok"

\* check_for_new_roles gets to process_job_changes: the fetch did not
\* raise, reported an update, and read_json did not raise
Proceeds(pulled, read) == ~pulled.raised /\ pulled.was_updated /\ read = "ok"

\* changes_for_discord.get('added', []) if changes_for_discord else [],
\* changes_for_discord being results.get('changes_for_discord')
NewRoles(results) ==
    IF "changes_for_discord" \in DOMAIN results THEN results.changes_for_discord.added ELSE <<>>

\* new_role.get(key, default) as a truth value
Flag(new_role, key, default) == IF key \in DOMAIN new_role THEN new_role[key] = "True" ELSE default

\* the role passes the filter of the notification loop
Eligible(new_role, timestamp) ==
    /\ Flag(new_role, "is_visible", TRUE)
    /\ Flag(new_role, "active", FALSE)
    /\ timestamp - new_role.date_posted <= max_post_age_days * Day

\* the heappush loop: (date_posted, counter, role) with counter = len(new_roles_heap)
RECURSIVE Heap(_, _, _)
Heap(new_roles, timestamp, new_roles_heap) ==
    IF new_roles = <<>> THEN new_roles_heap
    ELSE Heap(Tail(new_roles), timestamp,
              IF Eligible(Head(new_roles), timestamp)
              THEN new_roles_heap \cup {[date_posted |-> Head(new_roles).date_posted,
                                         counter |-> Cardinality(new_roles_heap), role |-> Head(new_roles)]}
              ELSE new_roles_heap)

\* a heap whose ties go to the entry pushed last
Precedes_LastPushedFirst(e, other) ==
    \/ e.date_posted < other.date_posted
    \/ e.date_posted = other.date_posted /\ e.counter > other.counter

\* tuple order of the heap entries; the counters differ, so the roles are never compared
Precedes(e, other) ==
    \/ e.date_posted < other.date_posted
    \/ e.date_posted = other.date_posted /\ e.counter < other.counter

\* heapq.heappop: the smallest entry
heappop(new_roles_heap) == CHOOSE e \in new_roles_heap : \A other \in new_roles_heap \ {e} : Precedes(e, other)

\* the order in which the tasks of one gather reach Discord
OrderIn(tasks, reversed) == [i \in 1..Len(tasks) |-> IF reversed THEN Len(tasks) + 1 - i ELSE i]

\* while new_roles_heap: pop, format, await send_messages_to_channels
RECURSIVE Drain(_, _, _, _)
Drain(mode, b, new_roles_heap, discord) ==
    IF new_roles_heap = {} THEN b
    ELSE Drain(mode,
               send_messages_to_channels(mode, b, heappop(new_roles_heap).role.id, heappop(new_roles_heap).role.id,
                                         OrderIn(TasksFor(b.failed_channels), discord.reversed), discord.outcomes),
               new_roles_heap \ {heappop(new_roles_heap)}, discord)

\* the notification block of check_for_new_roles
Notify(mode, b, results, timestamp, discord) ==
    IF results.added_count > 0 THEN Drain(mode, b, Heap(NewRoles(results), timestamp, {}), discord) ELSE b

\* ------------------------------------------------------------ state machine
VARIABLES
    migration_mode,   \* DataStorage.migration_mode
    json_file,        \* the listings document of the JSON backend (data_file)
    db_rows,          \* the job_postings table with its child rows
    listings_json,    \* the listings file of the local clone, as read_json returns it
    last,             \* the latest process_job_changes run, none after an upstream change
    clean,            \* consecutive runs without injected failure on the same listings file
    injected,         \* runs with an injected failure so far
    current_jobs_in,  \* detect_job_changes called directly: its current_jobs ...
    previous_jobs_in, \* ... its previous_jobs ...
    detected,         \* ... and what it returned
    config,           \* what DataStorage was constructed with: configured mode, result of the probe
    messages_file,    \* the message tracking document of the JSON backend (messages_file)
    db_tracking,      \* the message_tracking table
    api_call,         \* the latest call of the storage API: arguments, result, backend methods invoked
    now,              \* int(time.time())
    backups,          \* the data_file.backup.<second> files the storage API calls made: second -> content
    failed_channels,          \* bot.failed_channels
    channel_failure_counts,   \* bot.channel_failure_counts: 0 for a channel that has no key
    delivered,        \* the messages Discord accepted, in the order it accepted them
    send_call,        \* the latest send_messages_to_channels call: arguments, send_message calls, result
    remote,           \* the listings file at the head of origin
    cloned,           \* whether config.local_repo_path exists
    cycle,            \* the latest check_for_new_roles invocation that ran to its end
    additions,        \* listing id -> how often process_job_changes reported it as added
    handed,           \* listing id -> how often it was handed to send_messages_to_channels
    in_progress,      \* the check_for_new_roles invocations in progress
    migrator          \* the DataMigrator of the migration script: its migration_stats, the table it fills, its latest call

vars == <<migration_mode, json_file, db_rows, listings_json, last, clean, injected, current_jobs_in, previous_jobs_in, detected,
          config, messages_file, db_tracking, api_call, now, backups,
          failed_channels, channel_failure_counts, delivered, send_call, remote, cloned, cycle, additions, handed, in_progress,
          migrator>>

storage_vars == <<migration_mode, json_file, db_rows, listings_json, last, clean, injected>>

detect_vars == <<current_jobs_in, previous_jobs_in, detected>>

api_vars == <<messages_file, db_tracking, api_call, now, backups>>

channel_vars == <<failed_channels, channel_failure_counts, delivered, send_call>>

cycle_vars == <<remote, cloned, cycle, additions, handed, in_progress>>

bot_vars == <<channel_vars, cycle_vars>>

\* what DataStorage can be constructed with; the probe is only run for a
\* configured mode that needs the database
Configs == {c \in [migration_mode : Modes, probe_ok : BOOLEAN] : c.migration_mode = "json_only" => c.probe_ok}

\* the documents and tables as a call found them
Found(json, db, messages, tracking, files) ==
    [json |-> json, db |-> db, messages |-> messages, tracking |-> tracking, backups |-> files]

NoCall ==
    [op |-> "none", args |-> <<>>, ok |-> TRUE, value |-> <<>>, backend_calls |-> <<>>,
     before |-> Found(<<>>, <<>>, <<>>, <<>>, <<>>)]

\* no storage API call made, no tracking, no backup yet
ApiInit ==
    /\ messages_file = <<>>
    /\ db_tracking = <<>>
    /\ api_call = NoCall
    /\ now = 1
    /\ backups = <<>>

NoRun ==
    [op |-> "none", current_jobs |-> <<>>, previous |-> <<>>, changes |-> NoChanges, calls |-> <<>>, faulted |-> FALSE,
     results |-> [added_count |-> 0, updated_count |-> 0, removed_count |-> 0, update_failures |-> <<>>, success |-> TRUE]]

NotDetected == [done |-> FALSE, changes |-> NoChanges]

\* no migrate_job_postings call made yet
NoMigration ==
    [op |-> "none", job_data |-> <<>>, dry_run |-> FALSE, returned |-> TRUE, validated |-> 0, raised |-> FALSE,
     success_count |-> 0, failed_count |-> 0, skipped |-> 0]

\* DataMigrator.__init__: the counters at 0; the job_postings table empty
NotMigrating ==
    [migration_stats |-> [jobs_total |-> 0, jobs_migrated |-> 0, jobs_failed |-> 0],
     job_postings |-> <<>>,
     call |-> NoMigration]

\* no message sent so far
NoSend ==
    [op |-> "none", role_key |-> None, outcomes |-> <<>>, tasks |-> <<>>, calls |-> <<>>, returned |-> <<>>,
     tracking_calls |-> <<>>, attempts |-> <<>>, before |-> [failed_channels |-> {}, messages |-> <<>>, tracking |-> <<>>, delivered |-> 0]]

\* no check_for_new_roles invocation so far
NoCycle ==
    [op |-> "none", raised |-> FALSE, has_updates |-> FALSE, read |-> "none", processed |-> FALSE, faulted |-> FALSE,
     added_count |-> 0, new_roles |-> <<>>, eligible |-> <<>>, dispatched |-> <<>>, overlapping |-> 0,
     reconciled |-> [done |-> FALSE, ids |-> <<>>]]

\* the module state of bot.py at import, no local clone, origin empty
BotInit ==
    /\ failed_channels = {}
    /\ channel_failure_counts = [channel_id \in Channels |-> 0]
    /\ delivered = <<>>
    /\ send_call = NoSend
    /\ remote = <<>>
    /\ cloned = FALSE
    /\ cycle = NoCycle
    /\ additions = [id \in ListingIds |-> 0]
    /\ handed = [id \in ListingIds |-> 0]
    /\ in_progress = EmptyBag

\* DataStorage(config) on empty documents, the probe (where one is made)
\* succeeding; the reconciler not called directly
Init ==
    /\ config \in {c \in Configs : c.probe_ok}
    /\ migration_mode = InitMode(config.migration_mode, config.probe_ok)
    /\ ApiInit
    /\ json_file = <<>>
    /\ db_rows = <<>>
    /\ listings_json = <<>>
    /\ last = NoRun
    /\ clean = 0
    /\ injected = 0
    /\ current_jobs_in = <<>>
    /\ previous_jobs_in = <<>>
    /\ detected = NotDetected
    /\ migrator = NotMigrating
    /\ BotInit

\* upstream publishes one more listing (pulled by clone_or_update_repo)
UpstreamAppend(listing) ==
    /\ Len(listings_json) < MaxLen
    /\ listings_json' = Append(listings_json, listing)
    /\ last' = NoRun
    /\ clean' = 0
    /\ UNCHANGED <<migration_mode, config, json_file, db_rows, injected, detect_vars, migrator, api_vars, bot_vars>>

\* upstream withdraws the i-th listing
UpstreamRemove(i) ==
    /\ i \in 1..Len(listings_json)
    /\ listings_json' = SubSeq(listings_json, 1, i - 1) \o SubSeq(listings_json, i + 1, Len(listings_json))
    /\ last' = NoRun
    /\ clean' = 0
    /\ UNCHANGED <<migration_mode, config, json_file, db_rows, injected, detect_vars, migrator, api_vars, bot_vars>>

\* upstream corrects the i-th listing in place
UpstreamReplace(i, listing) ==
    /\ i \in 1..Len(listings_json)
    /\ listings_json[i] # listing
    /\ listings_json[i].id = listing.id
    /\ listings_json' = [listings_json EXCEPT ![i] = listing]
    /\ last' = NoRun
    /\ clean' = 0
    /\ UNCHANGED <<migration_mode, config, json_file, db_rows, injected, detect_vars, migrator, api_vars, bot_vars>>

\* storage.process_job_changes(read_json())
ProcessJobChanges(fault) ==
    \E run \in {process_job_changes(migration_mode, json_file, db_rows, listings_json, fault)} :
        /\ fault.at > 0 => injected < MaxInjected
        /\ injected' = IF fault.at > 0 THEN injected + 1 ELSE injected
        /\ json_file' = run.json
        /\ db_rows' = run.db
        /\ last' = [op |-> "process", current_jobs |-> listings_json, previous |-> run.previous, changes |-> run.changes,
                    calls |-> run.calls, faulted |-> run.faulted, results |-> run.results]
        /\ clean' = IF run.faulted THEN 0 ELSE IF clean < 2 THEN clean + 1 ELSE 2
        /\ UNCHANGED <<migration_mode, config, listings_json, detect_vars, migrator, api_vars, bot_vars>>

Next ==
    \/ \E listing \in Listings : UpstreamAppend(listing)
    \/ \E i \in 1..MaxLen : UpstreamRemove(i)
    \/ \E i \in 1..MaxLen, listing \in Listings : UpstreamReplace(i, listing)
    \/ \E fault \in Faults : ProcessJobChanges(fault)

Spec == Init /\ [][Next]_vars

\* ---------------------------------------- the reconciler as a pure function
InitDetect ==
    /\ config = [migration_mode |-> "json_only", probe_ok |-> TRUE]
    /\ migration_mode = "json_only"
    /\ ApiInit
    /\ json_file = <<>>
    /\ db_rows = <<>>
    /\ listings_json = <<>>
    /\ last = NoRun
    /\ clean = 0
    /\ injected = 0
    /\ current_jobs_in \in Snapshots
    /\ previous_jobs_in \in Snapshots
    /\ detected = NotDetected
    /\ migrator = NotMigrating
    /\ BotInit

\* json_backend.detect_job_changes(current_jobs, previous_jobs)
Detect ==
    /\ ~detected.done
    /\ detected' = [done |-> TRUE, changes |-> Json_detect_job_changes(current_jobs_in, previous_jobs_in)]
    /\ UNCHANGED <<storage_vars, current_jobs_in, previous_jobs_in, migrator, config, api_vars, bot_vars>>

NextDetect == Detect

SpecDetect == InitDetect /\ [][NextDetect]_vars

\* ------------------------------------------------- the storage API in use
\* the state a storage API call starts from
Current == Running(json_file, db_rows, messages_file, db_tracking, backups, now)

Before == Found(json_file, db_rows, messages_file, db_tracking, backups)

\* a failure is injected into a call only where a backend write is made,
\* and into MaxInjected calls at most
Injectable(fault, after) ==
    fault.at > 0 => (fault.at <= after.n /\ injected < MaxInjected)

\* a coordinator that goes back to JSON mode when a call fails
ModeAfter_DemoteOnFailure(mode, after) == IF after.ok THEN mode ELSE "json_only"

\* the mode after a call: no method assigns self.migration_mode
ModeAfter(mode, after) == mode

\* the state a storage API call leaves
Stores(after, fault) ==
    /\ json_file' = after.json
    /\ db_rows' = after.db
    /\ messages_file' = after.messages
    /\ db_tracking' = after.tracking
    /\ backups' = after.backups
    /\ injected' = IF fault.at > 0 THEN injected + 1 ELSE injected
    /\ migration_mode' = ModeAfter(migration_mode, after)
    /\ UNCHANGED <<config, now, listings_json, last, clean, detect_vars, migrator, bot_vars>>

\* the call as api_call keeps it
Called(op, args, ok, value, backend_calls) ==
    [op |-> op, args |-> args, ok |-> ok, value |-> value, backend_calls |-> backend_calls, before |-> Before]

\* time.time() moves on by a second
Tick ==
    /\ now < MaxTime
    /\ now' = now + 1
    /\ api_call' = NoCall
    /\ UNCHANGED <<storage_vars, detect_vars, migrator, config, messages_file, db_tracking, backups, bot_vars>>

\* storage.save_job_postings(job_postings)
SaveJobPostings(job_postings, fault) ==
    LET after == save_job_postings(migration_mode, Current, job_postings, fault)
    IN  /\ Injectable(fault, after)
        /\ Stores(after, fault)
        /\ api_call' = Called("save_job_postings", [job_postings |-> job_postings], after.ok, <<>>, after.backend_calls)

\* storage.update_job_posting(job_id, updates)
UpdateJobPosting(job_id, updates, fault) ==
    LET after == update_job_posting(migration_mode, Current, job_id, updates, fault)
    IN  /\ Injectable(fault, after)
        /\ Stores(after, fault)
        /\ api_call' = Called("update_job_posting", [job_id |-> job_id, updates |-> updates], after.ok, <<>>,
                              after.backend_calls)

\* storage.save_message_tracking(message_tracking)
SaveMessageTracking(message_tracking, fault) ==
    LET after == save_message_tracking(migration_mode, Current, message_tracking, fault)
    IN  /\ Injectable(fault, after)
        /\ Stores(after, fault)
        /\ api_call' = Called("save_message_tracking", [message_tracking |-> message_tracking], after.ok, <<>>,
                              after.backend_calls)

\* storage.add_message_tracking(job_id, message_id, channel_id)
AddMessageTracking(job_id, message_id, channel_id, fault) ==
    LET after == add_message_tracking(migration_mode, Current, job_id, message_id, channel_id, fault)
    IN  /\ Injectable(fault, after)
        /\ Stores(after, fault)
        /\ api_call' = Called("add_message_tracking",
                              [job_id |-> job_id, message_id |-> message_id, channel_id |-> channel_id],
                              after.ok, <<>>, after.backend_calls)

\* storage.process_job_changes(current_jobs)
ApiProcessJobChanges(current_jobs, fault) ==
    \E run \in {process_job_changes_on(migration_mode, Current, current_jobs, fault)} :
        \E after \in {[json |-> run.json, db |-> run.db, messages |-> messages_file, tracking |-> run.tracking,
                        backups |-> run.backups, n |-> IF run.faulted THEN fault.at ELSE 0,
                        ok |-> run.results.success]} :
            /\ Injectable(fault, after)
            /\ Stores(after, fault)
            /\ api_call' = Called("process_job_changes", [current_jobs |-> current_jobs], run.results.success,
                                  run.results, run.backend_calls)

\* a call that leaves the documents and tables alone
Reads(result, op, args) ==
    /\ api_call' = Called(op, args, TRUE, result.value, result.backend_calls)
    /\ UNCHANGED <<storage_vars, detect_vars, migrator, config, messages_file, db_tracking, now, backups, bot_vars>>

\* storage.get_job_postings()
GetJobPostings ==
    Reads(Read(migration_mode, "get_job_postings", get_job_postings(migration_mode, Current)), "get_job_postings", <<>>)

\* storage.get_message_tracking()
GetMessageTracking ==
    Reads(Read(migration_mode, "get_message_tracking", get_message_tracking(migration_mode, Current)),
          "get_message_tracking", <<>>)

\* storage.get_job_posting_by_id(job_id)
GetJobPostingById(job_id) ==
    Reads(Read(migration_mode, "get_job_posting_by_id", get_job_posting_by_id(migration_mode, Current, job_id)),
          "get_job_posting_by_id", [job_id |-> job_id])

\* storage.detect_job_changes(current_jobs): the read of the previous
\* snapshot, then the primary backend's comparison
DetectJobChanges(current_jobs) ==
    \E after \in {detect_job_changes_on(migration_mode, Current, current_jobs)} :
        /\ Stores(after, NoFault)
        /\ api_call' = Called("detect_job_changes", [current_jobs |-> current_jobs], TRUE,
                              [previous |-> after.previous_jobs, changes |-> after.changes], after.backend_calls)

\* storage.health_check()
HealthCheck ==
    Reads([value |-> <<>>, backend_calls |-> health_check(migration_mode, Current).backend_calls], "health_check", <<>>)

\* get_role_data_by_message_id(message_id) of the bot: read_json() and
\* storage.get_message_tracking()
GetRoleDataByMessageId(message_id) ==
    Reads([value |-> get_role_data_by_message_id(listings_json, get_message_tracking(migration_mode, Current), message_id),
           backend_calls |-> Read(migration_mode, "get_message_tracking", <<>>).backend_calls],
          "get_role_data_by_message_id", [message_id |-> message_id])

\* ----------------------------------------- one storage API call on a store
\* the rows save_job_postings has inserted for a snapshot
RowsOf(job_postings) == [i \in 1..Len(job_postings) |-> job_posting_from_dict(job_postings[i])]

\* what earlier calls can have left in the documents and tables of the
\* attached backends (a failed write on one side lets the two sides differ)
JsonDocuments(mode) == IF mode \in {"json_only", "dual_write"} THEN StoreSnapshots ELSE {<<>>}

DbTables(mode) ==
    IF mode \in {"dual_write", "database_only"}
    THEN {RowsOf(job_postings) : job_postings \in {s \in StoreSnapshots : Committable(RowsOf(s))}}
    ELSE {<<>>}

MessageDocuments(mode) == IF mode \in {"json_only", "dual_write"} THEN StoreTrackings ELSE {<<>>}

TrackingTables(mode, rows) ==
    IF mode \in {"dual_write", "database_only"}
    THEN {message_tracking \in StoreTrackings : TrackedIds(message_tracking) \subseteq Ids(rows)}
    ELSE {<<>>}

\* a DataStorage constructed on a store that earlier calls have filled
InitStore ==
    /\ config \in Configs
    /\ migration_mode = InitMode(config.migration_mode, config.probe_ok)
    /\ json_file \in JsonDocuments(migration_mode)
    /\ db_rows \in DbTables(migration_mode)
    /\ messages_file \in MessageDocuments(migration_mode)
    /\ db_tracking \in TrackingTables(migration_mode, db_rows)
    /\ api_call = NoCall
    /\ now = 1
    /\ backups = <<>>
    /\ listings_json = <<>>
    /\ last = NoRun
    /\ clean = 0
    /\ injected = 0
    /\ current_jobs_in = <<>>
    /\ previous_jobs_in = <<>>
    /\ detected = NotDetected
    /\ migrator = NotMigrating
    /\ BotInit

\* no method of the coordinator has been called yet
Fresh == api_call.op = "none"

\* any one call of the storage API on the constructed coordinator
NextStore ==
    \/ \E job_postings \in StoreSnapshots, fault \in Faults : Fresh /\ SaveJobPostings(job_postings, fault)
    \/ \E job_id \in StoreIds, updates \in StoreUpdates, fault \in Faults :
           Fresh /\ UpdateJobPosting(job_id, updates, fault)
    \/ \E message_tracking \in StoreTrackings, fault \in Faults : Fresh /\ SaveMessageTracking(message_tracking, fault)
    \/ \E job_id \in StoreIds, message_id \in MessageIds, channel_id \in ChannelIds, fault \in Faults :
           Fresh /\ AddMessageTracking(job_id, message_id, channel_id, fault)
    \/ \E current_jobs \in StoreSnapshots, fault \in Faults : Fresh /\ ApiProcessJobChanges(current_jobs, fault)
    \/ Fresh /\ GetJobPostings
    \/ Fresh /\ GetMessageTracking
    \/ \E job_id \in StoreIds : Fresh /\ GetJobPostingById(job_id)
    \/ \E current_jobs \in StoreSnapshots : Fresh /\ DetectJobChanges(current_jobs)
    \/ Fresh /\ HealthCheck

SpecStore == InitStore /\ [][NextStore]_vars

\* ------------------------------------------------------------------ claims
\* the field sets the specification names
PrimaryFields == {"active", "is_visible", "date_updated"}

SecondaryFields == {"url", "company_name", "title", "sponsorship", "source", "date_posted", "company_url", "locations", "terms"}

ListingFields == {"id"} \cup PrimaryFields \cup SecondaryFields

\* no id twice in a list of listings
UniqueIds(jobs) == \A i, j \in 1..Len(jobs) : jobs[i].id = jobs[j].id => i = j

\* what a read of the store returns now
Stored == get_job_postings(migration_mode, [json |-> json_file, db |-> db_rows])

\* positions of an id in a list of listings / of updated entries
At(jobs, id) == {i \in 1..Len(jobs) : jobs[i].id = id}

UpdatedAt(updated, id) == {i \in 1..Len(updated) : updated[i].job.id = id}

\* the latest entry of a snapshot with this id
Latest(jobs, id) == jobs[CHOOSE i \in At(jobs, id) : \A j \in At(jobs, id) : j <= i]

FieldsDiffer(fields, current_job, previous_job) ==
    \E f \in fields : Get(current_job, f) # Get(previous_job, f)

\* how often an id occurs in the three lists of a change set
Occurrences(changes, id) ==
    Cardinality(At(changes.added, id)) + Cardinality(At(changes.removed, id)) + Cardinality(UpdatedAt(changes.updated, id))

\* C3 (partition): every id of either snapshot is in at most one of added,
\* removed, updated, and at most once; an id in none of them is in both
\* snapshots without any primary-field (hence escalated-field) difference
C3_Partition ==
    detected.done =>
        \A id \in Ids(current_jobs_in) \cup Ids(previous_jobs_in) :
            /\ Occurrences(detected.changes, id) <= 1
            /\ Occurrences(detected.changes, id) = 0 =>
                   /\ id \in Ids(current_jobs_in) \cap Ids(previous_jobs_in)
                   /\ ~FieldsDiffer(PrimaryFields, Latest(current_jobs_in, id), Latest(previous_jobs_in, id))
                   /\ ~(/\ FieldsDiffer({"date_updated"}, Latest(current_jobs_in, id), Latest(previous_jobs_in, id))
                        /\ FieldsDiffer(SecondaryFields, Latest(current_jobs_in, id), Latest(previous_jobs_in, id)))

C3_Witness ==
    /\ detected.done
    /\ detected.changes.updated # <<>>
    /\ \E id \in Ids(current_jobs_in) \cap Ids(previous_jobs_in) : Occurrences(detected.changes, id) = 0

\* C4 (added / removed): added holds listings of current whose id is not in
\* previous, one for each such id; removed holds listings of previous whose id
\* is not in current, one for each such id
C4_AddedRemoved ==
    detected.done =>
        /\ Range(detected.changes.added) \subseteq {job \in Range(current_jobs_in) : job.id \notin Ids(previous_jobs_in)}
        /\ \A id \in Ids(current_jobs_in) \ Ids(previous_jobs_in) : Cardinality(At(detected.changes.added, id)) = 1
        /\ Range(detected.changes.removed) \subseteq {job \in Range(previous_jobs_in) : job.id \notin Ids(current_jobs_in)}
        /\ \A id \in Ids(previous_jobs_in) \ Ids(current_jobs_in) : Cardinality(At(detected.changes.removed, id)) = 1

C4_Witness ==
    /\ detected.done
    /\ detected.changes.added # <<>>
    /\ detected.changes.removed # <<>>

\* C5 (primary fields decide): an id of both snapshots has an updated entry
\* exactly when active, is_visible or date_updated differs; a difference in
\* secondary fields alone gives no entry
C5_PrimaryOnly ==
    detected.done =>
        \A id \in Ids(current_jobs_in) \cap Ids(previous_jobs_in) :
            (UpdatedAt(detected.changes.updated, id) # {})
                <=> FieldsDiffer(PrimaryFields, Latest(current_jobs_in, id), Latest(previous_jobs_in, id))

C5_Witness ==
    /\ detected.done
    /\ \E id \in Ids(current_jobs_in) \cap Ids(previous_jobs_in) :
           /\ FieldsDiffer(SecondaryFields, Latest(current_jobs_in, id), Latest(previous_jobs_in, id))
           /\ UpdatedAt(detected.changes.updated, id) = {}

\* C6 (escalation): when date_updated differs between the two versions of a
\* listing, it has an updated entry whose diff map holds date_updated and every
\* secondary field that differs
C6_Escalation ==
    detected.done =>
        \A id \in Ids(current_jobs_in) \cap Ids(previous_jobs_in) :
            LET current_job == Latest(current_jobs_in, id)
                previous_job == Latest(previous_jobs_in, id)
            IN  Get(current_job, "date_updated") # Get(previous_job, "date_updated") =>
                    \E i \in UpdatedAt(detected.changes.updated, id) :
                        /\ "date_updated" \in DOMAIN detected.changes.updated[i].changes
                        /\ \A f \in SecondaryFields :
                               Get(current_job, f) # Get(previous_job, f) => f \in DOMAIN detected.changes.updated[i].changes

C6_Witness ==
    /\ detected.done
    /\ \E i \in 1..Len(detected.changes.updated) :
           {"date_updated", "title"} \subseteq DOMAIN detected.changes.updated[i].changes

\* C7 (diff-map soundness): an updated entry pairs the current listing with a
\* non-empty diff map whose every field has old = the previous value, new = the
\* current value and old # new
C7_DiffMapSound ==
    detected.done =>
        \A i \in 1..Len(detected.changes.updated) :
            LET entry == detected.changes.updated[i]
                current_job == Latest(current_jobs_in, entry.job.id)
                previous_job == Latest(previous_jobs_in, entry.job.id)
            IN  /\ entry.job = current_job
                /\ DOMAIN entry.changes # {}
                /\ \A f \in DOMAIN entry.changes :
                       /\ entry.changes[f].old = Get(previous_job, f)
                       /\ entry.changes[f].new = Get(current_job, f)
                       /\ entry.changes[f].old # entry.changes[f].new

C7_Witness ==
    /\ detected.done
    /\ \E i \in 1..Len(detected.changes.updated) :
           /\ "active" \in DOMAIN detected.changes.updated[i].changes
           /\ detected.changes.updated[i].changes["active"].old = "True"
           /\ detected.changes.updated[i].changes["active"].new = "False"

\* the update_job_posting calls of the latest run, in call order
UpdateCalls == SelectSeq(last.calls, LAMBDA call : call.op = "update")

SaveCalls == SelectSeq(last.calls, LAMBDA call : call.op = "save")

\* C1 (idempotence): the second of two consecutive process_job_changes runs on
\* the same snapshot, nothing failing or changing in between, reports
\* updated_count = 0 and added_count = 0 (stated for the file-backed store and
\* snapshots without duplicate ids)
C1_Idempotence ==
    (clean = 2 /\ migration_mode = "json_only" /\ UniqueIds(listings_json)) =>
        last.results.updated_count = 0 /\ last.results.added_count = 0

\* C2 (convergence): after a run in which every write succeeded the ids in the
\* store are the ids of the snapshot, and each stored listing has the
\* snapshot's active, is_visible and date_updated (stated for the file-backed
\* store and snapshots without duplicate ids)
C2_Convergence ==
    (last.op = "process" /\ last.results.success /\ ~last.faulted /\ migration_mode = "json_only" /\ UniqueIds(last.current_jobs)) =>
        /\ Ids(Stored) = Ids(last.current_jobs)
        /\ \A id \in Ids(Stored) \cap Ids(last.current_jobs) :
               ~FieldsDiffer(PrimaryFields, Latest(Stored, id), Latest(last.current_jobs, id))

\* C8 (batch partial failure): when an update of the batch fails, every
\* updated entry was still attempted and the additions and removals were still
\* saved, success is False, update_failures names exactly the failed updates,
\* and every update that succeeded is in the store
C8_BatchPartialFailure ==
    (last.op = "process" /\ \E i \in 1..Len(UpdateCalls) : ~UpdateCalls[i].ok) =>
        /\ Len(UpdateCalls) = Len(last.changes.updated)
        /\ Len(SaveCalls) = (IF last.changes.added # <<>> THEN 1 ELSE 0) + (IF last.changes.removed # <<>> THEN 1 ELSE 0)
        /\ last.results.success = FALSE
        /\ [i \in 1..Len(last.results.update_failures) |-> last.results.update_failures[i].job_id]
               = [i \in 1..Len(SelectSeq(UpdateCalls, LAMBDA call : ~call.ok)) |-> SelectSeq(UpdateCalls, LAMBDA call : ~call.ok)[i].job_id]
        /\ \A i \in 1..Len(UpdateCalls) :
               UpdateCalls[i].ok =>
                   /\ UpdateCalls[i].job_id \in Ids(Stored)
                   /\ \A f \in DOMAIN UpdateCalls[i].updates :
                          Get(Latest(Stored, UpdateCalls[i].job_id), f) = UpdateCalls[i].updates[f]

\* C9 (update strategy): the run calls update_job_posting once per updated
\* entry, in order, with the entire current listing exactly when the diff map
\* holds date_updated, and otherwise with the changed fields and their new
\* values and nothing else
C9_UpdateStrategy ==
    last.op = "process" =>
        /\ Len(UpdateCalls) = Len(last.changes.updated)
        /\ \A i \in 1..Len(UpdateCalls) :
               LET entry == last.changes.updated[i]
                   call == UpdateCalls[i]
               IN  /\ call.job_id = entry.job.id
                   /\ IF "date_updated" \in DOMAIN entry.changes
                      THEN call.updates = entry.job
                      ELSE /\ call.updates # entry.job
                           /\ DOMAIN call.updates = DOMAIN entry.changes
                           /\ \A f \in DOMAIN entry.changes : call.updates[f] = entry.changes[f].new

C9_Witness ==
    /\ last.op = "process"
    /\ \E i, j \in 1..Len(UpdateCalls) :
           /\ "date_updated" \in DOMAIN last.changes.updated[i].changes
           /\ DOMAIN last.changes.updated[i].changes # {"date_updated"}
           /\ "date_updated" \notin DOMAIN last.changes.updated[j].changes

\* C10 (full-record replace): after a successful content-correction update the
\* stored listing is the current listing, field for field, with nothing left
\* of the previous record (stated for snapshots without duplicate ids)
C10_FullReplace ==
    (last.op = "process" /\ last.results.success /\ ~last.faulted /\ UniqueIds(last.current_jobs)) =>
        \A i \in 1..Len(last.changes.updated) :
            LET entry == last.changes.updated[i]
            IN  "date_updated" \in DOMAIN entry.changes =>
                    /\ entry.job.id \in Ids(Stored)
                    /\ ~FieldsDiffer(ListingFields, Latest(Stored, entry.job.id), entry.job)

\* ------------------------------------------------ backups of data_file
\* the snapshots saved one after the other
BackupSnapshots ==
    {<<Job("a", "True", "True", "100", "T1")>>,
     <<Job("a", "True", "True", "100", "T1"), Job("b", "True", "True", "100", "T1")>>,
     <<Job("b", "True", "True", "100", "T1")>>}

\* a JSON-only store with no data file yet
InitBackup ==
    /\ config = [migration_mode |-> "json_only", probe_ok |-> TRUE]
    /\ migration_mode = InitMode(config.migration_mode, config.probe_ok)
    /\ json_file = <<>>
    /\ db_rows = <<>>
    /\ ApiInit
    /\ listings_json = <<>>
    /\ last = NoRun
    /\ clean = 0
    /\ injected = 0
    /\ current_jobs_in = <<>>
    /\ previous_jobs_in = <<>>
    /\ detected = NotDetected
    /\ migrator = NotMigrating
    /\ BotInit

\* saves follow each other, within the same second or in a later one
NextBackup ==
    \/ Tick
    \/ \E job_postings \in BackupSnapshots, fault \in Faults : SaveJobPostings(job_postings, fault)

SpecBackup == InitBackup /\ [][NextBackup]_vars

\* ------------------------------------------- tracking and reverse lookup
\* the listings of the feed, all of them stored
TrackedListings == <<Job("a", "True", "True", "100", "T1"), Job("b", "True", "True", "100", "T1")>>

\* the channel a message was sent to
ChannelOf(message_id) == IF message_id = "m1" THEN "c1" ELSE "c2"

\* a store that holds the listings of the feed and no tracking entry yet
InitTracking ==
    /\ config \in Configs
    /\ migration_mode = InitMode(config.migration_mode, config.probe_ok)
    /\ json_file = (IF migration_mode \in {"json_only", "dual_write"} THEN TrackedListings ELSE <<>>)
    /\ db_rows = (IF migration_mode \in {"dual_write", "database_only"} THEN RowsOf(TrackedListings) ELSE <<>>)
    /\ ApiInit
    /\ listings_json = TrackedListings
    /\ last = NoRun
    /\ clean = 0
    /\ injected = 0
    /\ current_jobs_in = <<>>
    /\ previous_jobs_in = <<>>
    /\ detected = NotDetected
    /\ migrator = NotMigrating
    /\ BotInit

\* messages are recorded as they are sent, and looked up when a user reacts
NextTracking ==
    \/ \E job_id \in StoreIds, message_id \in MessageIds, fault \in Faults :
           AddMessageTracking(job_id, message_id, ChannelOf(message_id), fault)
    \/ \E message_id \in MessageIds : GetRoleDataByMessageId(message_id)

SpecTracking == InitTracking /\ [][NextTracking]_vars

\* ------------------------------------------- claims on the storage API
\* which backends the coordinator has attached
JsonAttached == migration_mode \in {"json_only", "dual_write"}

DbAttached == migration_mode \in {"dual_write", "database_only"}

\* the entries of the latest call's log for one backend
CallsOn(backend) == SelectSeq(api_call.backend_calls, LAMBDA c : c.backend = backend)

\* the contents of the backup files
BackupContents(files) == {files[t] : t \in DOMAIN files}

\* the first position of an id in a list of listings
FirstAt(jobs, id) == CHOOSE i \in At(jobs, id) : \A j \in At(jobs, id) : i <= j

\* C11 (update of an unknown id): update_job_posting with an id a backend does
\* not hold returns False and leaves that backend as it was: the document and
\* the backups untouched (no write, no rename), the table and its tracking
\* rows untouched
C11_UnknownIdUpdate ==
    api_call.op = "update_job_posting" =>
        /\ (JsonAttached /\ api_call.args.job_id \notin Ids(api_call.before.json)) =>
               /\ ~api_call.ok
               /\ json_file = api_call.before.json
               /\ backups = api_call.before.backups
               /\ \A i \in 1..Len(CallsOn("json")) : ~CallsOn("json")[i].ok /\ ~CallsOn("json")[i].rotated
        /\ (DbAttached /\ api_call.args.job_id \notin Ids(api_call.before.db)) =>
               /\ ~api_call.ok
               /\ db_rows = api_call.before.db
               /\ db_tracking = api_call.before.tracking

C11_Witness ==
    /\ api_call.op = "update_job_posting"
    /\ migration_mode = "json_only"
    /\ api_call.before.json # <<>>
    /\ api_call.args.job_id \notin Ids(api_call.before.json)
    /\ ~api_call.ok

\* the listings of after are those of before, in the same order and number,
\* but for the keys of updates in the first listing with this id
OnlyPatched(before, after, job_id, updates) ==
    /\ Len(after) = Len(before)
    /\ \A i \in 1..Len(before) :
           IF i = FirstAt(before, job_id)
           THEN /\ DOMAIN after[i] = DOMAIN before[i] \cup DOMAIN updates
                /\ \A f \in DOMAIN before[i] \ DOMAIN updates : after[i][f] = before[i][f]
           ELSE after[i] = before[i]

\* C12 (frame of an update): update_job_posting with an id the backend holds
\* leaves every other listing, their order and number, and every field of the
\* listing that is not a key of updates as they were
C12_UpdateFrame ==
    api_call.op = "update_job_posting" =>
        /\ (JsonAttached /\ api_call.args.job_id \in Ids(api_call.before.json)) =>
               OnlyPatched(api_call.before.json, json_file, api_call.args.job_id, api_call.args.updates)
        /\ (DbAttached /\ api_call.args.job_id \in Ids(api_call.before.db)) =>
               OnlyPatched(api_call.before.db, db_rows, api_call.args.job_id, api_call.args.updates)

WriteOps == {"save_job_postings", "save_message_tracking", "add_message_tracking", "update_job_posting"}

\* C13 (no short-circuit): in dual_write a write call invokes the method of
\* the JSON backend once and then that of the database backend once, whatever
\* the first returned, and returns True exactly when both returned True
C13_DualWrite ==
    (migration_mode = "dual_write" /\ api_call.op \in WriteOps) =>
        /\ Len(api_call.backend_calls) = 2
        /\ api_call.backend_calls[1].backend = "json"
        /\ api_call.backend_calls[2].backend = "database"
        /\ \A i \in 1..2 : api_call.backend_calls[i].op = api_call.op
        /\ api_call.ok <=> (api_call.backend_calls[1].ok /\ api_call.backend_calls[2].ok)

C13_Witness ==
    /\ migration_mode = "dual_write"
    /\ api_call.op = "add_message_tracking"
    /\ Len(api_call.backend_calls) = 2
    /\ ~api_call.backend_calls[1].ok
    /\ api_call.backend_calls[2].ok
    /\ ~api_call.ok

ReadOps == {"get_job_postings", "get_message_tracking", "get_job_posting_by_id", "detect_job_changes"}

\* C14 (read routing): a read invokes methods of one backend only, the JSON
\* backend in json_only and dual_write and the database backend in
\* database_only, and returns what that backend holds; in database_only no
\* call invokes a method of the JSON backend
C14_ReadRouting ==
    /\ api_call.op \in ReadOps =>
           /\ api_call.backend_calls # <<>>
           /\ \A i \in 1..Len(api_call.backend_calls) :
                  api_call.backend_calls[i].backend = (IF migration_mode = "database_only" THEN "database" ELSE "json")
           /\ api_call.op = "get_job_postings" =>
                  api_call.value = (IF migration_mode = "database_only" THEN Db_get_job_postings(db_rows) ELSE json_file)
           /\ api_call.op = "get_message_tracking" =>
                  api_call.value = (IF migration_mode = "database_only" THEN db_tracking ELSE messages_file)
           /\ api_call.op = "get_job_posting_by_id" =>
                  api_call.value.found <=>
                      api_call.args.job_id \in Ids(IF migration_mode = "database_only" THEN db_rows ELSE json_file)
           /\ api_call.op = "detect_job_changes" =>
                  api_call.value.previous = (IF migration_mode = "database_only" THEN Db_get_job_postings(db_rows) ELSE json_file)
    /\ migration_mode = "database_only" => CallsOn("json") = <<>>

C14_Witness ==
    /\ migration_mode = "dual_write"
    /\ api_call.op = "get_job_postings"
    /\ api_call.value = json_file
    /\ Ids(json_file) # Ids(db_rows)

\* the configuration asks for the database and the probe of it fails
FallenBack == config.migration_mode \in {"dual_write", "database_only"} /\ ~config.probe_ok

\* C15 (startup fallback): constructed with dual_write or database_only and a
\* failing probe, the coordinator is in json_only, a call is served by the
\* JSON backend and no call invokes a method of the database backend
C15_Fallback ==
    FallenBack =>
        /\ migration_mode = "json_only"
        /\ CallsOn("database") = <<>>
        /\ db_rows = <<>> /\ db_tracking = <<>>
        /\ api_call.op \in WriteOps \cup ReadOps =>
               /\ api_call.backend_calls # <<>>
               /\ api_call.backend_calls[1].backend = "json"

C15_Witness ==
    /\ config = [migration_mode |-> "database_only", probe_ok |-> FALSE]
    /\ api_call.op = "save_job_postings"
    /\ api_call.ok
    /\ json_file # <<>>
    /\ json_file = api_call.args.job_postings

\* C16 (the mode is fixed): no call changes migration_mode, whether it reads,
\* writes, fails to write, checks health or processes a batch of changes
C16_ModeFixed == [][migration_mode' = migration_mode]_vars

C16_Witness ==
    /\ config = [migration_mode |-> "dual_write", probe_ok |-> TRUE]
    /\ migration_mode = "dual_write"
    /\ api_call.op = "save_job_postings"
    /\ Len(api_call.backend_calls) = 2
    /\ ~api_call.backend_calls[2].ok
    /\ ~api_call.ok

\* what get_job_postings returns on a store
Snapshot(json, db) == IF migration_mode = "database_only" THEN Db_get_job_postings(db) ELSE Json_get_job_postings(json)

\* C17 (a save is atomic to readers): after save_job_postings, failed or not,
\* get_job_postings returns the whole snapshot of before the call or the
\* whole new one
C17_AtomicSave ==
    api_call.op = "save_job_postings" =>
        \/ Snapshot(json_file, db_rows) = Snapshot(api_call.before.json, api_call.before.db)
        \/ Snapshot(json_file, db_rows) = Snapshot(api_call.args.job_postings, RowsOf(api_call.args.job_postings))

\* C19 (referential check): add_message_tracking for an id the database
\* backend has no listing of returns False and leaves the tracking table as
\* it was; the JSON backend checks nothing and keeps the entry whether the
\* listing is in its document or not
C19_ReferentialCheck ==
    api_call.op = "add_message_tracking" =>
        /\ (DbAttached /\ api_call.args.job_id \notin Ids(api_call.before.db)) =>
               /\ ~api_call.ok
               /\ db_tracking = api_call.before.tracking
        /\ (migration_mode = "database_only" /\ api_call.args.job_id \notin Ids(api_call.before.db)) =>
               messages_file = api_call.before.messages
        /\ (JsonAttached /\ CallsOn("json")[1].ok) =>
               \E i \in 1..Len(messages_file) : messages_file[i] = api_call.args
        /\ (migration_mode = "json_only" /\ injected = 0) => api_call.ok

C19_Witness ==
    /\ api_call.op = "add_message_tracking"
    /\ migration_mode = "dual_write"
    /\ api_call.args.job_id \notin Ids(api_call.before.db)
    /\ api_call.args.job_id \notin Ids(api_call.before.json)
    /\ ~api_call.ok
    /\ db_tracking = api_call.before.tracking
    /\ \E i \in 1..Len(messages_file) : messages_file[i] = api_call.args

\* C18 (no silent clobber): after a save, the document the save replaced is
\* the content of a backup file, and every document that an earlier save had
\* left in a backup file is still in one (or is the document again)
C18_BackupKept ==
    api_call.op = "save_job_postings" =>
        /\ (api_call.before.json # <<>> /\ json_file # api_call.before.json) =>
               api_call.before.json \in BackupContents(backups)
        /\ BackupContents(api_call.before.backups) \subseteq BackupContents(backups) \cup {json_file}

\* what get_role_data_by_message_id returns on a store
Lookup(messages, tracking, message_id) ==
    get_role_data_by_message_id(listings_json,
                                IF migration_mode = "database_only"
                                THEN Db_get_message_tracking(tracking)
                                ELSE Json_get_message_tracking(messages),
                                message_id)

\* C20 (reverse lookup): after a successful add_message_tracking(j, m, c) of
\* a stored listing j and a message id m not recorded before, the lookup of m
\* returns listing j; the lookup of every other message id returns what it
\* returned before the call (the listing it was recorded for, or nothing if
\* it never was recorded); and a lookup returns what the store gives
C20_ReverseLookup ==
    /\ (api_call.op = "add_message_tracking" /\ api_call.ok) =>
           /\ ~Lookup(api_call.before.messages, api_call.before.tracking, api_call.args.message_id).found =>
                  /\ Lookup(messages_file, db_tracking, api_call.args.message_id).found
                  /\ Lookup(messages_file, db_tracking, api_call.args.message_id).job.id = api_call.args.job_id
           /\ \A message_id \in MessageIds \ {api_call.args.message_id} :
                  Lookup(messages_file, db_tracking, message_id) =
                      Lookup(api_call.before.messages, api_call.before.tracking, message_id)
    /\ api_call.op = "get_role_data_by_message_id" =>
           api_call.value = Lookup(messages_file, db_tracking, api_call.args.message_id)


\* ---------------------------------------------- claims on the bulk writes
\* the ids of a list of listings, in order
IdSeq(jobs) == [i \in 1..Len(jobs) |-> jobs[i].id]

\* the last n elements of a sequence
Suffix(s, n) == SubSeq(s, Len(s) - n + 1, Len(s))

\* C30 (bulk writes): one process_job_changes run calls save_job_postings
\* once if listings were added and once more if listings were removed,
\* however many, after every update_job_posting call; the first save writes
\* the stored listings followed by all added ones, the save of the removals
\* writes the stored listings but for the removed ids, and comes last
C30_BulkWrites ==
    last.op = "process" =>
        LET added == last.changes.added
            removed == last.changes.removed
            n_added == IF added = <<>> THEN 0 ELSE 1
            n_removed == IF removed = <<>> THEN 0 ELSE 1
        IN  /\ Len(SaveCalls) = n_added + n_removed
            /\ last.calls = UpdateCalls \o SaveCalls
            /\ added # <<>> =>
                   LET all_jobs == SaveCalls[1].job_postings
                   IN  /\ Len(all_jobs) >= Len(added)
                       /\ Suffix(all_jobs, Len(added)) = added
                       /\ ~last.faulted =>
                              IdSeq(SubSeq(all_jobs, 1, Len(all_jobs) - Len(added))) = IdSeq(last.previous)
            /\ removed # <<>> =>
                   LET filtered_jobs == SaveCalls[Len(SaveCalls)].job_postings
                   IN  /\ Ids(filtered_jobs) \cap Ids(removed) = {}
                       /\ ~last.faulted =>
                              \/ IdSeq(filtered_jobs) =
                                     SelectSeq(IdSeq(last.previous), LAMBDA id : id \notin Ids(removed))
                              \/ /\ added # <<>>
                                 /\ IdSeq(filtered_jobs) =
                                        SelectSeq(IdSeq(SaveCalls[1].job_postings), LAMBDA id : id \notin Ids(removed))

C30_Witness ==
    /\ last.op = "process"
    /\ last.changes.added # <<>>
    /\ last.changes.removed # <<>>
    /\ ~last.faulted
    /\ Len(SaveCalls) = 2
    /\ SaveCalls[1].ok /\ SaveCalls[2].ok


\* ------------------------------------------------------ notifying channels
\* send_messages_to_channels(message, role_key), the message being the one
\* formatted for the listing role_key
SendMessagesToChannels(role_key, outcomes, order) ==
    \E sending \in {TasksFor(failed_channels)} :
        /\ Len(delivered) < MaxSent
        /\ order \in Orders(sending)
        /\ \E b \in {send_messages_to_channels(migration_mode,
                                                Sending(failed_channels, channel_failure_counts, Current, delivered),
                                                role_key, role_key, order, outcomes)} :
               /\ failed_channels' = b.failed_channels
               /\ channel_failure_counts' = b.channel_failure_counts
               /\ delivered' = b.delivered
               /\ messages_file' = b.st.messages
               /\ db_tracking' = b.st.tracking
               /\ send_call' = [op |-> "send_messages_to_channels", role_key |-> role_key, outcomes |-> outcomes,
                                tasks |-> sending, calls |-> b.calls, returned |-> Messages(sending, b.calls),
                                tracking_calls |-> b.tracking_calls, attempts |-> b.attempts,
                                before |-> [failed_channels |-> failed_channels, messages |-> messages_file,
                                            tracking |-> db_tracking, delivered |-> Len(delivered)]]
        /\ UNCHANGED <<storage_vars, detect_vars, migrator, config, api_call, now, backups, cycle_vars>>

\* a store that holds the listings of the feed, no message sent yet
InitNotify ==
    /\ config \in {c \in Configs : c.probe_ok}
    /\ migration_mode = InitMode(config.migration_mode, config.probe_ok)
    /\ json_file = (IF migration_mode \in {"json_only", "dual_write"} THEN TrackedListings ELSE <<>>)
    /\ db_rows = (IF migration_mode \in {"dual_write", "database_only"} THEN RowsOf(TrackedListings) ELSE <<>>)
    /\ ApiInit
    /\ listings_json = TrackedListings
    /\ last = NoRun
    /\ clean = 0
    /\ injected = 0
    /\ current_jobs_in = <<>>
    /\ previous_jobs_in = <<>>
    /\ detected = NotDetected
    /\ migrator = NotMigrating
    /\ BotInit

NextNotify ==
    \E role_key \in StoreIds, outcomes \in [Channels -> DiscordOutcomes] :
        \E order \in Orders(TasksFor(failed_channels)) : SendMessagesToChannels(role_key, outcomes, order)

SpecNotify == InitNotify /\ [][NextNotify]_vars


\* ------------------------------------------------ claims on notification
\* the messages the latest send_messages_to_channels call got delivered
NewlyDelivered == SubSeq(delivered, send_call.before.delivered + 1, Len(delivered))

\* the channels of a sequence of messages or calls
ChannelsOf(s) == {s[i].channel_id : i \in 1..Len(s)}

\* the tracking entries the store holds for the listing
TrackingOf(job_id) ==
    SelectSeq(get_message_tracking(migration_mode, Current), LAMBDA entry : entry.job_id = job_id)

\* the channels a message for the listing was delivered to
NotifiedChannels(job_id) == {delivered[i].channel_id : i \in {k \in 1..Len(delivered) : delivered[k].content = job_id}}

\* C21: one tracking entry is recorded per channel notified: a listing
\* whose message was delivered to N channels has N tracking entries in the
\* store.
C21_EntryPerChannel ==
    \A job_id \in StoreIds : Len(TrackingOf(job_id)) = Cardinality(NotifiedChannels(job_id))

\* C29: send_messages_to_channels calls add_message_tracking exactly once
\* after each message that was sent, with the listing, the id of that
\* message and its channel, and never for a channel whose send failed; a
\* failed send returns no message, is not tried again in the call, and
\* the other channels get their message whatever happened to it.
C29_TrackingOnDelivery ==
    send_call.op = "send_messages_to_channels" =>
        /\ send_call.tracking_calls =
               [i \in 1..Len(NewlyDelivered) |->
                   [job_id |-> send_call.role_key, message_id |-> NewlyDelivered[i].id,
                    channel_id |-> NewlyDelivered[i].channel_id]]
        /\ Len(send_call.calls) = Len(send_call.tasks)
        /\ ChannelsOf(send_call.calls) = ChannelsOf([i \in 1..Len(send_call.tasks) |-> [channel_id |-> send_call.tasks[i]]])
        /\ Len(NewlyDelivered) = Cardinality(ChannelsOf(NewlyDelivered))
        /\ \A i \in 1..Len(send_call.calls) :
               /\ send_call.calls[i].returned = None <=> send_call.calls[i].channel_id \notin ChannelsOf(NewlyDelivered)
               /\ send_call.calls[i].returned = None <=> send_call.outcomes[send_call.calls[i].channel_id] # "sent"
        /\ Len(send_call.returned) = Len(NewlyDelivered)

\* one channel failed and the other one got its message
C29_Witness ==
    /\ send_call.op = "send_messages_to_channels"
    /\ Len(send_call.calls) = 2
    /\ \E i, j \in 1..2 : send_call.calls[i].returned = None /\ send_call.calls[j].returned # None
    /\ Len(send_call.tracking_calls) = 1


\* ------------------------------------------------------- the check cycle
\* datetime.now().timestamp() during the cycles
CycleTime == 3

\* the listings upstream publishes: one to notify about and one posted
\* too long ago
CycleListings ==
    { Posted(Job("a", "True", "True", "100", "T1"), 2),
      Posted(Job("b", "True", "True", "100", "T1"), 1) }

\* the listings files upstream publishes
Published ==
    {s \in SeqsUpTo(CycleListings, MaxLen) : \A i, j \in 1..Len(s) : i # j => s[i].id # s[j].id}

\* what Discord does during one cycle
DiscordDoes == [outcomes : [Channels -> DiscordOutcomes], reversed : BOOLEAN]

\* Discord is contacted only for roles to notify about
DiscordFor(new_roles) == IF new_roles = <<>> THEN {CHOOSE discord \in DiscordDoes : TRUE} ELSE DiscordDoes

\* how often the id is among the role keys or listings
CountOf(ids, id) == Cardinality({i \in 1..Len(ids) : ids[i] = id})

\* the listings of the list the notification loop lets through
EligibleOf(listings, timestamp) == SelectSeq(listings, LAMBDA new_role : Eligible(new_role, timestamp))

\* a commit to the listings file is pushed to origin
Push(snapshot) ==
    /\ snapshot # remote
    /\ \A id \in Ids(snapshot) \ Ids(remote) : additions[id] < MaxAdded
    /\ remote' = snapshot
    /\ UNCHANGED <<storage_vars, detect_vars, migrator, config, api_vars, channel_vars, cloned, cycle, additions, handed, in_progress>>

\* a reconciliation that detects the changes against the store as it was
\* before any invocation wrote to it
DetectedOn_Stale(st) == [st EXCEPT !.json = <<>>, !.db = <<>>]

\* the store process_job_changes detects the changes against: the one it
\* writes to, as it is when the call begins
DetectedOn(st) == st

\* check_for_new_roles returns (or read_json raises) before process_job_changes
Returns(pulled, read, fault) ==
    /\ fault.at = 0
    /\ (pulled.raised \/ ~pulled.was_updated) => read = "ok"
    /\ cycle' = [NoCycle EXCEPT !.op = "check_for_new_roles", !.raised = pulled.raised,
                                 !.has_updates = pulled.was_updated,
                                 !.read = IF pulled.raised \/ ~pulled.was_updated THEN "none" ELSE read,
                                 !.reconciled = cycle.reconciled]
    /\ UNCHANGED <<migration_mode, json_file, db_rows, injected, api_vars, channel_vars, additions, handed>>

\* check_for_new_roles from process_job_changes on
Reconciles(pulled, fault, overlapped) ==
    \E run \in {ProcessPhases(migration_mode, Current,
                               detect_job_changes(migration_mode, DetectedOn(Current), pulled.file), fault)} :
        /\ fault.at > 0 => (run.faulted /\ injected < MaxInjected)
        /\ injected' = IF fault.at > 0 THEN injected + 1 ELSE injected
        /\ \E discord \in DiscordFor(NewRoles(run.results)) :
               \E b \in {Notify(migration_mode,
                                 Sending(failed_channels, channel_failure_counts,
                                         Running(run.json, run.db, messages_file, run.tracking, run.backups, now), delivered),
                                 run.results, now, discord)} :
                   /\ json_file' = b.st.json
                   /\ db_rows' = b.st.db
                   /\ messages_file' = b.st.messages
                   /\ db_tracking' = b.st.tracking
                   /\ backups' = b.st.backups
                   /\ failed_channels' = b.failed_channels
                   /\ channel_failure_counts' = b.channel_failure_counts
                   /\ delivered' = b.delivered
                   /\ handed' = [id \in ListingIds |-> handed[id] + CountOf(b.handed, id)]
                   /\ additions' = [id \in ListingIds |->
                                       additions[id] + CountOf(IdSeq(EligibleOf(run.changes.added, now)), id)]
                   /\ cycle' = [op |-> "check_for_new_roles", raised |-> FALSE, has_updates |-> pulled.was_updated,
                                read |-> "ok", processed |-> TRUE, faulted |-> run.faulted,
                                added_count |-> run.results.added_count, new_roles |-> NewRoles(run.results),
                                eligible |-> IdSeq(EligibleOf(run.changes.added, now)), dispatched |-> b.handed,
                                reconciled |-> [done |-> TRUE, ids |-> IdSeq(pulled.file)],
                                overlapping |-> IF ~overlapped THEN 0
                                                ELSE IF cycle.overlapping < MaxTasks THEN cycle.overlapping + 1
                                                ELSE MaxTasks]
        /\ UNCHANGED <<migration_mode, api_call, now, send_call>>

\* one invocation of check_for_new_roles from its first line to its last
CheckForNewRoles(git, read, fault) ==
    \E pulled \in {clone_or_update_repo(cloned, listings_json, listings_json, remote, git)} :
        /\ cloned' = pulled.exists
        /\ listings_json' = pulled.file
        /\ IF Proceeds(pulled, read) THEN Reconciles(pulled, fault, FALSE) ELSE Returns(pulled, read, fault)
        /\ UNCHANGED <<last, clean, detect_vars, migrator, config, remote, in_progress>>

\* the bot starts on an empty store, without a clone, origin being empty
InitCycle ==
    /\ config \in {c \in Configs : c.probe_ok}
    /\ migration_mode = InitMode(config.migration_mode, config.probe_ok)
    /\ json_file = <<>>
    /\ db_rows = <<>>
    /\ messages_file = <<>>
    /\ db_tracking = <<>>
    /\ api_call = NoCall
    /\ now = CycleTime
    /\ backups = <<>>
    /\ listings_json = <<>>
    /\ last = NoRun
    /\ clean = 0
    /\ injected = 0
    /\ current_jobs_in = <<>>
    /\ previous_jobs_in = <<>>
    /\ detected = NotDetected
    /\ migrator = NotMigrating
    /\ BotInit

NextCycle ==
    \/ \E snapshot \in Published : Push(snapshot)
    \/ \E git \in GitOutcomes, read \in {"ok", "raises"}, fault \in Faults : CheckForNewRoles(git, read, fault)

SpecCycle == InitCycle /\ [][NextCycle]_vars


\* ------------------------------------------------- the notification loop
\* the roles the notification loop is run on: three listings posted at
\* three times, the first of them too long ago, an inactive one and an
\* invisible one
DispatchRoles ==
    { Posted(Job(id, "True", "True", "100", "T1"), date_posted) : id \in ListingIds, date_posted \in {1, 2, 3} }
        \cup { Posted(Job("a", "False", "True", "100", "T1"), 2), Posted(Job("b", "True", "False", "100", "T1"), 2) }

\* lists of added roles: a listing is reported as added once
AddedLists ==
    {s \in SeqsUpTo(DispatchRoles, MaxLen) : \A i, j \in 1..Len(s) : i # j => s[i].id # s[j].id}

\* the loop over new_roles and the loop over new_roles_heap
DispatchNewRoles(discord) ==
    /\ cycle.op = "none"
    /\ \E b \in {Drain(migration_mode, Sending(failed_channels, channel_failure_counts, Current, delivered),
                        Heap(cycle.new_roles, now, {}), discord)} :
           /\ failed_channels' = b.failed_channels
           /\ channel_failure_counts' = b.channel_failure_counts
           /\ delivered' = b.delivered
           /\ messages_file' = b.st.messages
           /\ db_tracking' = b.st.tracking
           /\ handed' = [id \in ListingIds |-> handed[id] + CountOf(b.handed, id)]
           /\ cycle' = [cycle EXCEPT !.op = "dispatch", !.eligible = IdSeq(EligibleOf(cycle.new_roles, now)),
                                     !.dispatched = b.handed]
    /\ UNCHANGED <<storage_vars, detect_vars, migrator, config, api_call, now, backups, send_call, remote, cloned, additions,
                   in_progress>>

\* the store holds the listings of the feed; the reconciliation reported
\* a list of added roles
InitDispatch ==
    /\ config \in {c \in Configs : c.probe_ok}
    /\ migration_mode = InitMode(config.migration_mode, config.probe_ok)
    /\ json_file = (IF migration_mode \in {"json_only", "dual_write"} THEN TrackedListings ELSE <<>>)
    /\ db_rows = (IF migration_mode \in {"dual_write", "database_only"} THEN RowsOf(TrackedListings) ELSE <<>>)
    /\ messages_file = <<>>
    /\ db_tracking = <<>>
    /\ api_call = NoCall
    /\ now = CycleTime
    /\ backups = <<>>
    /\ listings_json = TrackedListings
    /\ last = NoRun
    /\ clean = 0
    /\ injected = 0
    /\ current_jobs_in = <<>>
    /\ previous_jobs_in = <<>>
    /\ detected = NotDetected
    /\ migrator = NotMigrating
    /\ failed_channels = {}
    /\ channel_failure_counts = [channel_id \in Channels |-> 0]
    /\ delivered = <<>>
    /\ send_call = NoSend
    /\ remote = TrackedListings
    /\ cloned = TRUE
    /\ cycle \in {[NoCycle EXCEPT !.new_roles = new_roles] : new_roles \in AddedLists}
    /\ additions = [id \in ListingIds |-> 0]
    /\ handed = [id \in ListingIds |-> 0]
    /\ in_progress = EmptyBag

NextDispatch == \E discord \in DiscordDoes : DispatchNewRoles(discord)

SpecDispatch == InitDispatch /\ [][NextDispatch]_vars

\* ------------------------------------------------ overlapping invocations
\* an invocation whose clone_or_update_repo runs in the executor: what the
\* listings file held when old_hash was read, and whether another
\* invocation was in progress at some time
Fetching(file, overlapped) ==
    [pc |-> "fetching", old |-> file, incoming |-> <<>>, raised |-> FALSE, was_updated |-> FALSE,
     overlapped |-> overlapped]

\* the invocation is back on the event loop with the value of has_updates
Fetched(task, pulled) ==
    [task EXCEPT !.pc = "fetched", !.old = <<>>, !.incoming = <<>>, !.raised = pulled.raised,
                 !.was_updated = pulled.was_updated]

\* the invocations in progress with one of them replaced
Replaced(tasks, task, by) == (tasks (-) SetToBag({task})) (+) SetToBag({by})

\* all invocations in progress marked as overlapping with another one
Overlapping(tasks) ==
    LET marked == {[task EXCEPT !.overlapped = TRUE] : task \in BagToSet(tasks)}
    IN  [task \in marked |-> CopiesIn(task, tasks) + CopiesIn([task EXCEPT !.overlapped = FALSE], tasks)]

\* the invocations in progress whose pull is rewriting the listings file
Merging == {task \in BagToSet(in_progress) : task.pc = "merging"}

\* run_check_for_new_roles, called by schedule.run_pending():
\* bot.loop.create_task(check_for_new_roles()), which runs up to the await
\* of run_in_executor
Trigger ==
    /\ BagCardinality(in_progress) < MaxTasks
    /\ in_progress' = Overlapping(in_progress) (+) SetToBag({Fetching(listings_json, in_progress # EmptyBag)})
    /\ UNCHANGED <<storage_vars, detect_vars, migrator, config, api_vars, channel_vars, remote, cloned, cycle, additions, handed>>

\* clone_or_update_repo in an executor thread, up to the point where the
\* pull begins to rewrite the listings file; old_hash was read at the
\* start of the thread or just now
MergeBegins(task, stale) ==
    /\ task \in BagToSet(in_progress)
    /\ task.pc = "fetching"
    /\ cloned
    /\ remote # listings_json
    /\ stale => task.old # listings_json
    /\ Merging = {}
    /\ in_progress' = Replaced(in_progress, task,
                               [task EXCEPT !.pc = "merging", !.incoming = remote,
                                            !.old = IF stale THEN @ ELSE listings_json])
    /\ UNCHANGED <<storage_vars, detect_vars, migrator, config, api_vars, channel_vars, remote, cloned, cycle, additions, handed>>

\* the pull has rewritten the listings file and the thread returns
MergeEnds(task) ==
    /\ task \in BagToSet(in_progress)
    /\ task.pc = "merging"
    /\ \E pulled \in {clone_or_update_repo(cloned, task.old, listings_json, task.incoming, "ok")} :
           /\ listings_json' = pulled.file
           /\ in_progress' = Replaced(in_progress, task, Fetched(task, pulled))
    /\ UNCHANGED <<migration_mode, json_file, db_rows, last, clean, injected, detect_vars, migrator, config, api_vars, channel_vars,
                   remote, cloned, cycle, additions, handed>>

\* clone_or_update_repo in an executor thread when the pull leaves the
\* listings file alone, git raises, or there is no clone yet
Pull(task, git, stale) ==
    /\ task \in BagToSet(in_progress)
    /\ task.pc = "fetching"
    /\ Merging = {}
    /\ git # "raises" => (~cloned \/ remote = listings_json)
    /\ stale => task.old # listings_json
    /\ \E pulled \in {clone_or_update_repo(cloned, IF stale THEN task.old ELSE listings_json,
                                             listings_json, remote, git)} :
           /\ listings_json' = pulled.file
           /\ cloned' = pulled.exists
           /\ in_progress' = Replaced(in_progress, task, Fetched(task, pulled))
    /\ UNCHANGED <<migration_mode, json_file, db_rows, last, clean, injected, detect_vars, migrator, config, api_vars, channel_vars,
                   remote, cycle, additions, handed>>

\* read_json(): the listings file as it is when the invocation is back on
\* the event loop; while a pull rewrites it, the old file or the new one
ReadJson(file, incoming, read) == IF read = "incoming" THEN incoming ELSE file

\* what the file is being rewritten to, if a pull is rewriting it
Incoming == {task.incoming : task \in Merging}

\* check_for_new_roles from the return of run_in_executor to its end; a
\* read of the file while a pull rewrites it returns the old file, the new
\* one, or raises
Resume(task, read) ==
    /\ task \in BagToSet(in_progress)
    /\ task.pc = "fetched"
    /\ read # "ok" => Incoming # {}
    /\ in_progress' = in_progress (-) SetToBag({task})
    /\ \E incoming \in (IF read = "ok" THEN {<<>>} ELSE Incoming) :
           \E pulled \in {[raised |-> task.raised, was_updated |-> task.was_updated,
                            file |-> ReadJson(listings_json, incoming, read)]} :
               IF Proceeds(pulled, IF read = "raises" THEN "raises" ELSE "ok")
               THEN Reconciles(pulled, NoFault, task.overlapped)
               ELSE Returns(pulled, IF read = "raises" THEN "raises" ELSE "ok", NoFault)
    /\ UNCHANGED <<listings_json, last, clean, detect_vars, migrator, config, remote, cloned>>

\* the state after the check of on_ready: a clone of the empty origin, an
\* empty store, the scheduler loop running
InitOverlap ==
    /\ config \in {c \in Configs : c.probe_ok}
    /\ migration_mode = InitMode(config.migration_mode, config.probe_ok)
    /\ json_file = <<>>
    /\ db_rows = <<>>
    /\ messages_file = <<>>
    /\ db_tracking = <<>>
    /\ api_call = NoCall
    /\ now = CycleTime
    /\ backups = <<>>
    /\ listings_json = <<>>
    /\ last = NoRun
    /\ clean = 0
    /\ injected = 0
    /\ current_jobs_in = <<>>
    /\ previous_jobs_in = <<>>
    /\ detected = NotDetected
    /\ migrator = NotMigrating
    /\ failed_channels = {}
    /\ channel_failure_counts = [channel_id \in Channels |-> 0]
    /\ delivered = <<>>
    /\ send_call = NoSend
    /\ remote = <<>>
    /\ cloned = TRUE
    /\ cycle = NoCycle
    /\ additions = [id \in ListingIds |-> 0]
    /\ handed = [id \in ListingIds |-> 0]
    /\ in_progress = EmptyBag

\* the listings files upstream publishes while invocations overlap: the
\* feed grows by a listing or loses its last one
Growing == {s \in Published : s = <<>> \/ s[1].id = "a"}

NextOverlap ==
    \/ \E snapshot \in Growing : Push(snapshot)
    \/ Trigger
    \/ \E task \in BagToSet(in_progress), stale \in BOOLEAN : MergeBegins(task, stale)
    \/ \E task \in BagToSet(in_progress) : MergeEnds(task)
    \/ \E task \in BagToSet(in_progress), git \in GitOutcomes, stale \in BOOLEAN : Pull(task, git, stale)
    \/ \E task \in BagToSet(in_progress), read \in {"ok", "incoming", "raises"} : Resume(task, read)

SpecOverlap == InitOverlap /\ [][NextOverlap]_vars

\* ------------------------------------------------- claims on the check cycle
\* the latest cycle got past the fetch and the read
CycleProcessed == cycle.op = "check_for_new_roles" /\ cycle.processed

\* nothing failed in the latest cycle: neither git nor the read of the
\* listings file nor a write of the store
CycleHealthy == cycle.op = "check_for_new_roles" /\ ~cycle.raised /\ cycle.read # "raises" /\ ~cycle.faulted

\* C22: in a cycle that found updates and whose reconciliation reported
\* added listings, send_messages_to_channels is invoked exactly once for
\* each added listing that is active, visible and posted within
\* max_post_age_days, with the id of the listing as role_key, and for no
\* other listing.
C22_NotifiedPerAddition ==
    (CycleProcessed /\ ~cycle.faulted /\ cycle.added_count > 0) =>
        \A id \in ListingIds : CountOf(cycle.dispatched, id) = CountOf(cycle.eligible, id)

\* C23: over all cycles, failed ones included, a listing was handed to
\* send_messages_to_channels once for each time the reconciliation
\* reported it as an added listing to notify about, and never more often.
C23_OncePerAddition ==
    \A id \in ListingIds : handed[id] = additions[id]

\* C25: a cycle whose fetch raises or reports no update, or whose read of
\* the listings file raises, changes neither the listings nor the tracking
\* of the store, sends no message and does not get to the reconciliation.
C25_FetchFailure ==
    [][(cycle'.op = "check_for_new_roles" /\ (cycle'.raised \/ ~cycle'.has_updates \/ cycle'.read = "raises")) =>
           /\ ~cycle'.processed
           /\ cycle'.dispatched = <<>>
           /\ UNCHANGED <<json_file, db_rows, messages_file, db_tracking, backups, delivered, handed>>]_vars

\* the read of the listings file failed while origin had a listing the
\* store does not hold
C25_Witness ==
    /\ cycle.op = "check_for_new_roles"
    /\ cycle.read = "raises"
    /\ ~cycle.processed
    /\ Ids(remote) # Ids(Stored)
    /\ listings_json = remote

\* C26: a cycle in which nothing fails applies every upstream change the
\* clone holds, those a failed cycle before it left unapplied included:
\* after it the store holds the listings of the listings file, whether or
\* not upstream changed since the failed cycle.
C26_SelfHealing == CycleHealthy => Ids(Stored) = Ids(listings_json)


\* ------------------------------------------ claims on the notification loop
\* date_posted of the role with the id / its position in new_roles
PostedAt(new_roles, id) == new_roles[CHOOSE i \in 1..Len(new_roles) : new_roles[i].id = id].date_posted

PositionIn(ids, id) == CHOOSE i \in 1..Len(ids) : ids[i] = id

\* C24: the roles are handed to send_messages_to_channels in
\* non-decreasing order of date_posted, roles with equal date_posted in
\* the order of the added list, each eligible role once; and the messages
\* of one role are all sent before the first message of the next one.
C24_NotificationOrder ==
    cycle.op = "dispatch" =>
        /\ Len(cycle.dispatched) = Len(cycle.eligible)
        /\ \A id \in ListingIds : CountOf(cycle.dispatched, id) = CountOf(cycle.eligible, id)
        /\ \A i, j \in 1..Len(cycle.dispatched) :
               i < j =>
                   /\ PostedAt(cycle.new_roles, cycle.dispatched[i]) <= PostedAt(cycle.new_roles, cycle.dispatched[j])
                   /\ PostedAt(cycle.new_roles, cycle.dispatched[i]) = PostedAt(cycle.new_roles, cycle.dispatched[j])
                         => PositionIn(IdSeq(cycle.new_roles), cycle.dispatched[i])
                              < PositionIn(IdSeq(cycle.new_roles), cycle.dispatched[j])
        /\ \A i, j \in 1..Len(delivered) :
               i < j => PositionIn(cycle.dispatched, delivered[i].content)
                          <= PositionIn(cycle.dispatched, delivered[j].content)

\* two roles posted at the same time, the later one of the list having
\* the smaller id, and both delivered to both channels
C24_Witness ==
    /\ cycle.op = "dispatch"
    /\ Len(cycle.dispatched) = 2
    /\ PostedAt(cycle.new_roles, cycle.dispatched[1]) = PostedAt(cycle.new_roles, cycle.dispatched[2])
    /\ cycle.dispatched = <<"b", "a">>
    /\ Len(delivered) = 4


\* ------------------------------------------- claims on overlapping invocations
\* C27: at most one invocation of check_for_new_roles is in progress at
\* any time: the scheduler starts none while an earlier one is running.
C27_Serialized == BagCardinality(in_progress) <= 1

\* C28: the reconciliations of overlapping invocations run one after the
\* other, each on the store the one before it left, so the store holds
\* what the serial run of them in that order leaves: the listings the
\* latest reconciliation read, each once, and no other listing.
C28_OverlapSafety ==
    cycle.reconciled.done => (UniqueIds(Stored) /\ IdSeq(Stored) = cycle.reconciled.ids)

\* two invocations that overlapped have both reconciled and ended
C28_Witness ==
    /\ in_progress = EmptyBag
    /\ CycleProcessed
    /\ cycle.overlapping >= 2
    /\ Stored # <<>>


\* ------------------------------ the reconciler on snapshots with repeated ids
\* two versions of listing a (differing in primary and secondary fields) and
\* two of listing b (differing in a primary field)
OrderListings ==
    { Job("a", "True", "True", "100", "T1"), Job("a", "False", "True", "200", "T2"),
      Job("b", "True", "True", "100", "T1"), Job("b", "True", "False", "100", "T1") }

\* the snapshots handed to detect_job_changes, ids repeated or not
OrderSnapshots == SeqsUpTo(OrderListings, MaxDup)

InitOrder ==
    /\ config = [migration_mode |-> "json_only", probe_ok |-> TRUE]
    /\ migration_mode = "json_only"
    /\ ApiInit
    /\ json_file = <<>>
    /\ db_rows = <<>>
    /\ listings_json = <<>>
    /\ last = NoRun
    /\ clean = 0
    /\ injected = 0
    /\ current_jobs_in \in OrderSnapshots
    /\ previous_jobs_in \in SeqsUpTo(OrderListings, MaxLen)
    /\ detected = NotDetected
    /\ migrator = NotMigrating
    /\ BotInit

\* database_backend.detect_job_changes(current_jobs, previous_jobs)
DbDetect ==
    /\ ~detected.done
    /\ detected' = [done |-> TRUE, changes |-> Db_detect_job_changes(current_jobs_in, previous_jobs_in)]
    /\ UNCHANGED <<storage_vars, current_jobs_in, previous_jobs_in, migrator, config, api_vars, bot_vars>>

NextOrder ==
    \/ Detect
    \/ DbDetect

SpecOrder == InitOrder /\ [][NextOrder]_vars

\* where a listing first stands in a snapshot
FirstPosition(snapshot, listing) ==
    CHOOSE p \in 1..Len(snapshot) : snapshot[p] = listing /\ \A q \in 1..(p - 1) : snapshot[q] # listing

\* a listing that precedes another in the snapshot precedes it in the list
PreservesOrder(list, snapshot) ==
    \A i, j \in 1..Len(list) :
        (/\ list[i] \in Range(snapshot)
         /\ list[j] \in Range(snapshot)
         /\ FirstPosition(snapshot, list[i]) < FirstPosition(snapshot, list[j])) => i < j

\* the listings of the updated entries
UpdatedJobs(updated) == [i \in 1..Len(updated) |-> updated[i].job]

\* C31 (output ordering): added, updated and removed list their listings in
\* the order in which these stand in the current snapshot: a listing that
\* first stands before another in the snapshot stands before it in the list
C31_OutputOrder ==
    detected.done =>
        /\ PreservesOrder(detected.changes.added, current_jobs_in)
        /\ PreservesOrder(UpdatedJobs(detected.changes.updated), current_jobs_in)
        /\ PreservesOrder(detected.changes.removed, current_jobs_in)

\* the same for snapshots in which no id repeats
C31_OutputOrder_UniqueIds ==
    (detected.done /\ UniqueIds(current_jobs_in) /\ UniqueIds(previous_jobs_in)) => C31_OutputOrder


\* the storage API methods that write listings
ListingWriters == {"save_job_postings", "update_job_posting", "process_job_changes"}

\* C32 (pure reconciler): detect_job_changes leaves the listings, the
\* tracking entries and the backups as it found them, calls no backend method
\* other than the read of the previous snapshot and the comparison, and
\* compares against what the store holds; a call that leaves the listings of
\* a backend changed is a save, an update or process_job_changes
C32_ReconcilerPure ==
    /\ api_call.op = "detect_job_changes" =>
           /\ Before = api_call.before
           /\ \A i \in 1..Len(api_call.backend_calls) :
                  api_call.backend_calls[i].op \in {"get_job_postings", "detect_job_changes"}
           /\ api_call.value.previous = Stored
    /\ (api_call.op # "none" /\ (json_file # api_call.before.json \/ db_rows # api_call.before.db)) =>
           api_call.op \in ListingWriters

C32_Witness ==
    /\ api_call.op = "detect_job_changes"
    /\ api_call.value.changes.added # <<>>
    /\ api_call.value.changes.removed # <<>>
    /\ Stored # <<>>


\* ------------------------------------------------------ giving up channels
\* what Discord does with one send_message call, a Forbidden raised by
\* channel.send (the channel is visible, sending is not permitted) told
\* apart from the other exceptions
SendOutcomes == DiscordOutcomes \cup {"send_forbidden"}

\* send_message(message, channel_id, role_key) called on its own, the
\* message being the one formatted for the listing role_key
SendMessage(channel_id, role_key, outcome) ==
    /\ Len(delivered) < MaxSent
    /\ \E b \in {send_message(migration_mode, Sending(failed_channels, channel_failure_counts, Current, delivered),
                              role_key, channel_id, role_key, outcome)} :
           /\ failed_channels' = b.failed_channels
           /\ channel_failure_counts' = b.channel_failure_counts
           /\ delivered' = b.delivered
           /\ messages_file' = b.st.messages
           /\ db_tracking' = b.st.tracking
           /\ send_call' = [op |-> "send_message", role_key |-> role_key,
                            outcomes |-> [c \in Channels |-> outcome], tasks |-> <<>>, calls |-> b.calls,
                            returned |-> Messages(<<channel_id>>, b.calls),
                            tracking_calls |-> b.tracking_calls, attempts |-> b.attempts,
                            before |-> [failed_channels |-> failed_channels, messages |-> messages_file,
                                        tracking |-> db_tracking, delivered |-> Len(delivered)]]
    /\ UNCHANGED <<storage_vars, detect_vars, migrator, config, api_call, now, backups, cycle_vars>>

\* the listing the messages are about
ChannelsRole == "a"

NextChannels ==
    \/ \E channel_id \in Channels, outcome \in SendOutcomes : SendMessage(channel_id, ChannelsRole, outcome)
    \/ \E outcomes \in [Channels -> SendOutcomes] :
           \E order \in Orders(TasksFor(failed_channels)) : SendMessagesToChannels(ChannelsRole, outcomes, order)

SpecChannels == InitNotify /\ [][NextChannels]_vars

\* C33 (sticky blacklist): for a channel that is in failed_channels when
\* send_message or send_messages_to_channels is called, bot.get_channel is
\* not called and nothing is delivered, send_message returns None,
\* send_messages_to_channels creates no task, and the channel is in
\* failed_channels afterwards
C33_StickyBlacklist ==
    send_call.op # "none" =>
        \A c \in send_call.before.failed_channels :
            /\ c \notin Range(send_call.attempts)
            /\ c \notin ChannelsOf(NewlyDelivered)
            /\ c \notin Range(send_call.tasks)
            /\ \A i \in 1..Len(send_call.calls) :
                   send_call.calls[i].channel_id = c => send_call.calls[i].returned = None
            /\ c \in failed_channels

C33_Witness ==
    /\ send_call.op = "send_message"
    /\ Len(send_call.calls) = 1
    /\ send_call.calls[1].channel_id \in send_call.before.failed_channels
    /\ send_call.outcomes[send_call.calls[1].channel_id] = "sent"
    /\ send_call.calls[1].returned = None
    /\ send_call.before.failed_channels # Channels

\* what the latest call did to a channel it tried
gives_up(c, counts) ==
    \/ send_call'.outcomes[c] \in {"forbidden", "send_forbidden"}
    \/ send_call'.outcomes[c] \in {"not_found", "error"} /\ counts[c] + 1 = max_retries

\* C34 (blacklist threshold): a call adds a channel it tried to
\* failed_channels exactly when Discord refused it with Forbidden or when
\* its count of failures since the last successful send reaches max_retries;
\* a successful send clears the count; a channel that was not tried keeps
\* its place and its count; a channel not in failed_channels has a count
\* below max_retries
C34_Step ==
    \A c \in Channels :
        /\ c \in Range(send_call'.attempts) =>
               /\ c \in failed_channels' <=> gives_up(c, channel_failure_counts)
               /\ send_call'.outcomes[c] = "sent" => channel_failure_counts'[c] = 0
        /\ c \notin Range(send_call'.attempts) =>
               /\ c \in failed_channels' <=> c \in failed_channels
               /\ channel_failure_counts'[c] = channel_failure_counts[c]
        /\ c \notin failed_channels' => channel_failure_counts'[c] < max_retries

C34_BlacklistThreshold == [][C34_Step]_vars


\* ------------------------------------------- the two backends side by side
\* the listings the coordinator is called with in dual_write: also one that
\* does not carry the optional key active
DualListings == StoreListings \cup { Without(Job("a", "True", "True", "100", "T1"), "active") }

DualSnapshots == SeqsUpTo(DualListings, MaxLen)

\* a coordinator in dual_write on a file and tables that earlier calls have
\* filled, with the same snapshot or not
InitDual ==
    /\ config = [migration_mode |-> "dual_write", probe_ok |-> TRUE]
    /\ migration_mode = InitMode(config.migration_mode, config.probe_ok)
    /\ json_file \in DualSnapshots
    /\ db_rows \in {RowsOf(job_postings) : job_postings \in {s \in DualSnapshots : Db_save_job_postings(<<>>, s, FALSE).ok}}
    /\ ApiInit
    /\ listings_json = <<>>
    /\ last = NoRun
    /\ clean = 0
    /\ injected = 0
    /\ current_jobs_in = <<>>
    /\ previous_jobs_in = <<>>
    /\ detected = NotDetected
    /\ migrator = NotMigrating
    /\ BotInit

\* one write of listings through the coordinator
NextDual ==
    \/ \E job_postings \in DualSnapshots, fault \in Faults : Fresh /\ SaveJobPostings(job_postings, fault)
    \/ \E job_id \in StoreIds, updates \in StoreUpdates, fault \in Faults :
           Fresh /\ UpdateJobPosting(job_id, updates, fault)
    \/ \E current_jobs \in DualSnapshots, fault \in Faults : Fresh /\ ApiProcessJobChanges(current_jobs, fault)

SpecDual == InitDual /\ [][NextDual]_vars

\* a listing of one list has a listing with the same id and the same value
\* in every field in the other list
CoveredBy(jobs, others) ==
    \A i \in 1..Len(jobs) :
        \E j \in 1..Len(others) : \A f \in ListingFields : Get(jobs[i], f) = Get(others[j], f)

\* the file backend and the relational backend hold the same listings
SameListings(json, db) ==
    /\ CoveredBy(Json_get_job_postings(json), Db_get_job_postings(db))
    /\ CoveredBy(Db_get_job_postings(db), Json_get_job_postings(json))

\* the two backends hold the same snapshot: the same listings one by one
SameSnapshot(json, db) ==
    /\ Len(Json_get_job_postings(json)) = Len(Db_get_job_postings(db))
    /\ \A i \in 1..Len(Json_get_job_postings(json)) :
           \A f \in ListingFields : Get(Json_get_job_postings(json)[i], f) = Get(Db_get_job_postings(db)[i], f)

\* C35 (dual-write consistency): in dual_write a save, an update or a
\* process_job_changes that reports success on backends holding the same
\* snapshot leaves them holding the same snapshot, hence the same set of
\* listings with the same field values, and a save that reports success
\* leaves them so whatever they held before
C35_DualWriteConsistency ==
    (migration_mode = "dual_write" /\ api_call.op \in ListingWriters /\ api_call.ok) =>
        /\ SameSnapshot(api_call.before.json, api_call.before.db) =>
               (SameSnapshot(json_file, db_rows) /\ SameListings(json_file, db_rows))
        /\ api_call.op = "save_job_postings" =>
               (SameSnapshot(json_file, db_rows) /\ SameListings(json_file, db_rows))

C35_Witness ==
    /\ migration_mode = "dual_write"
    /\ api_call.op = "save_job_postings"
    /\ api_call.ok
    /\ ~SameListings(api_call.before.json, api_call.before.db)
    /\ json_file # <<>>
    /\ SameListings(json_file, db_rows)


\* the tracking entries of a backend before the call whose listing the
\* backend still holds are among its tracking entries after the call
TrackingKept(before, after, listings) ==
    \A i \in 1..Len(before) : before[i].job_id \in Ids(listings) => before[i] \in Range(after)

\* C36 (tracking not expired by listing writes): after save_job_postings,
\* update_job_posting or process_job_changes, in every mode, each backend
\* still holds, unaltered, the tracking entry of every listing it still holds
C36_TrackingKept ==
    api_call.op \in ListingWriters =>
        /\ TrackingKept(api_call.before.messages, messages_file, json_file)
        /\ TrackingKept(api_call.before.tracking, db_tracking, db_rows)


\* C37 (id uniqueness in the store): from the empty store, after any
\* sequence of process_job_changes calls on snapshots with or without
\* repeated ids, with or without write failures, neither backend holds two
\* listings with the same id
C37_UniqueIds ==
    /\ UniqueIds(Json_get_job_postings(json_file))
    /\ UniqueIds(Db_get_job_postings(db_rows))
    /\ UniqueIds(Stored)

C37_Witness ==
    /\ last.op = "process"
    /\ ~UniqueIds(last.current_jobs)
    /\ last.changes.added # <<>>
    /\ last.previous # <<>>
    /\ Len(Stored) = 2


\* C38 (duplicate-id policy): of several listings with one id in a snapshot
\* the last one is classified and compared: an id of the current snapshot
\* only is added with its last listing, an id of the previous snapshot only
\* is removed with its last listing, an id of both is updated exactly when
\* the last listings differ in a primary field, with the last current listing
\* and old and new values taken from the last listings; and no id is in the
\* change set twice
C38_LastWins ==
    detected.done =>
        \A id \in Ids(current_jobs_in) \cup Ids(previous_jobs_in) :
            /\ Occurrences(detected.changes, id) <= 1
            /\ id \notin Ids(previous_jobs_in) =>
                   \E i \in At(detected.changes.added, id) : detected.changes.added[i] = Latest(current_jobs_in, id)
            /\ id \notin Ids(current_jobs_in) =>
                   \E i \in At(detected.changes.removed, id) : detected.changes.removed[i] = Latest(previous_jobs_in, id)
            /\ id \in Ids(current_jobs_in) \cap Ids(previous_jobs_in) =>
                   /\ UpdatedAt(detected.changes.updated, id) # {} <=>
                          FieldsDiffer(PrimaryFields, Latest(current_jobs_in, id), Latest(previous_jobs_in, id))
                   /\ \A i \in UpdatedAt(detected.changes.updated, id) :
                          /\ detected.changes.updated[i].job = Latest(current_jobs_in, id)
                          /\ \A f \in DOMAIN detected.changes.updated[i].changes :
                                 /\ detected.changes.updated[i].changes[f].old = Get(Latest(previous_jobs_in, id), f)
                                 /\ detected.changes.updated[i].changes[f].new = Get(Latest(current_jobs_in, id), f)

C38_Witness ==
    /\ detected.done
    /\ \E id \in Ids(current_jobs_in) \cap Ids(previous_jobs_in) :
           /\ Cardinality(At(current_jobs_in, id)) >= 2
           /\ Cardinality(At(previous_jobs_in, id)) >= 2
           /\ \E i \in At(current_jobs_in, id) : current_jobs_in[i] # Latest(current_jobs_in, id)
           /\ \E i \in At(previous_jobs_in, id) : previous_jobs_in[i] # Latest(previous_jobs_in, id)
           /\ UpdatedAt(detected.changes.updated, id) # {}

\* ------------------------------------------------ the urls of what is stored
\* listings of which two carry the same url under different ids (a listing
\* withdrawn and published again), and one of them with a later date_updated
UrlListings ==
    { Job("a", "True", "True", "100", "T1"), Job("a", "True", "True", "200", "T1"),
      [Job("c", "True", "True", "100", "T1") EXCEPT !.url = "u_a"],
      Job("b", "True", "True", "100", "T1") }

\* no two entries of the list carry the same url
DistinctUrls(jobs) == \A i, j \in 1..Len(jobs) : i # j => jobs[i].url # jobs[j].url

\* the snapshots read_json may return here: the urls pairwise distinct
UrlSnapshots == {snapshot \in SeqsUpTo(UrlListings, MaxLen) : DistinctUrls(snapshot)}

\* clone_or_update_repo pulls a listings file that read_json returns as snapshot
Fetch(snapshot) ==
    /\ snapshot # listings_json
    /\ listings_json' = snapshot
    /\ last' = NoRun
    /\ clean' = 0
    /\ UNCHANGED <<migration_mode, config, json_file, db_rows, injected, detect_vars, migrator, api_vars, bot_vars>>

NextUrl ==
    \/ \E snapshot \in UrlSnapshots : Fetch(snapshot)
    \/ \E fault \in Faults : ProcessJobChanges(fault)

SpecUrl == Init /\ [][NextUrl]_vars

\* C39 (URL uniqueness): every fetched snapshot having pairwise distinct
\* urls, the listings document and the job_postings table hold pairwise
\* distinct urls after every write of process_job_changes: after each update,
\* after the save of the add phase, after the save of the remove phase
C39_UrlUniqueness ==
    /\ DistinctUrls(json_file)
    /\ DistinctUrls(db_rows)
    /\ last.op = "process" =>
           \A i \in 1..Len(last.calls) : DistinctUrls(last.calls[i].json) /\ DistinctUrls(last.calls[i].db)

\* the same of the documents between two runs only
C39_UrlUniqueness_BetweenRuns ==
    DistinctUrls(json_file) /\ DistinctUrls(db_rows)

\* the same of the table only
C39_UrlUniqueness_Table ==
    /\ DistinctUrls(db_rows)
    /\ last.op = "process" => \A i \in 1..Len(last.calls) : DistinctUrls(last.calls[i].db)

\* ------------------------------------------------- the migration script
\* an int too large for a float (json.load returns it as an int)
Huge == "10**400"

\* the records of the JSON document handed to migrate_job_postings: valid
\* ones (with and without id and optional fields, two of them with the same
\* url, two with the same id), the records of the tests (a required field
\* missing or empty, a field of the wrong type), and a date_posted too large
MigrationRecords ==
    { [company_name |-> "C", title |-> "T", url |-> "u1"],
      [id |-> "a", company_name |-> "C", title |-> "T", url |-> "u2", locations |-> "[SF]", terms |-> "[Summer]",
       active |-> "True", date_posted |-> "1700000000"],
      [id |-> "a", company_name |-> "C", title |-> "T", url |-> "u1"],
      [company_name |-> "C", url |-> "u1"],
      [company_name |-> "C", title |-> "T", url |-> ""],
      [company_name |-> "C", title |-> "T", url |-> "u1", locations |-> "not a list"],
      [company_name |-> "C", title |-> "T", url |-> "u1", active |-> "not a boolean"],
      [company_name |-> "C", title |-> "T", url |-> "u1", date_posted |-> "invalid"],
      [company_name |-> "C", title |-> "T", url |-> "u1", date_posted |-> Huge] }

MigrationBatches == SeqsUpTo(MigrationRecords, MaxLen)

\* bool(value) of a field value
Truthy(value) == value \notin {None, "", "[]", "False", "0"}

\* isinstance(value, list)
IsList(value) == value \in {"[]", "[SF]", "[Summer]"}

\* isinstance(value, bool)
IsBool(value) == value \in {"True", "False"}

\* float(value): "float" when it returns, else the exception it raises
float_outcome(value) ==
    CASE value = None -> "TypeError"
      [] value = Huge -> "OverflowError"
      [] value \in {"1700000000", "100", "200"} -> "float"
      [] IsList(value) -> "TypeError"
      [] OTHER -> "ValueError"

\* DataMigrator.validate_job_data: (is_valid, errors), or the exception of
\* float() that its except (TypeError, ValueError) clause does not catch
validate_job_data(job_data) ==
    LET required == SelectSeq(<<"company_name", "title", "url">>,
                              LAMBDA field : field \notin DOMAIN job_data \/ ~Truthy(job_data[field]))
        converted == IF "date_posted" \in DOMAIN job_data THEN float_outcome(job_data["date_posted"]) ELSE "float"
        errors == [i \in 1..Len(required) |-> "Missing required field: " \o required[i]]
                  \o (IF "locations" \in DOMAIN job_data /\ ~IsList(job_data["locations"]) THEN <<"locations must be a list">> ELSE <<>>)
                  \o (IF "terms" \in DOMAIN job_data /\ ~IsList(job_data["terms"]) THEN <<"terms must be a list">> ELSE <<>>)
                  \o (IF "active" \in DOMAIN job_data /\ ~IsBool(job_data["active"]) THEN <<"active must be a boolean">> ELSE <<>>)
                  \o (IF converted \in {"TypeError", "ValueError"} THEN <<"date_posted must be a valid timestamp">> ELSE <<>>)
    IN  IF converted = "OverflowError"
        THEN [raised |-> TRUE, is_valid |-> FALSE, errors |-> <<>>]
        ELSE [raised |-> FALSE, is_valid |-> errors = <<>>, errors |-> errors]

\* str(uuid.uuid4()) for the i-th record of the batch
uuid4(i) == "uuid" \o ToString(i)

\* the body of the for loop for the i-th record: validation, the dry run,
\* else the missing fields filled in and the insert unless the url is there;
\* an insert that the table refuses (primary key) is caught and counted
MigrateOne(acc, job, i, dry_run) ==
    LET checked == validate_job_data(job)
        validated == [acc EXCEPT !.validated = @ + 1]
    IN  IF checked.raised THEN [validated EXCEPT !.raised = TRUE]
        ELSE IF ~checked.is_valid THEN [validated EXCEPT !.failed_count = @ + 1]
        ELSE IF dry_run THEN [validated EXCEPT !.success_count = @ + 1]
        ELSE LET id == IF "id" \in DOMAIN job THEN job.id ELSE uuid4(i)
             IN  IF \E k \in 1..Len(acc.job_postings) : acc.job_postings[k].url = job.url
                 THEN [validated EXCEPT !.skipped = @ + 1]
                 ELSE IF \E k \in 1..Len(acc.job_postings) : acc.job_postings[k].id = id
                 THEN [validated EXCEPT !.failed_count = @ + 1]
                 ELSE [validated EXCEPT !.success_count = @ + 1,
                                        !.job_postings = Append(@, [id |-> id, url |-> job.url])]

\* the for loop from the i-th record on; an exception outside the inner try
\* ends it
RECURSIVE MigrateFrom(_, _, _, _)
MigrateFrom(acc, job_data, i, dry_run) ==
    IF i > Len(job_data) \/ acc.raised THEN acc
    ELSE MigrateFrom(MigrateOne(acc, job_data[i], i, dry_run), job_data, i + 1, dry_run)

\* DataMigrator.migrate_job_postings: jobs_total is set first; the two other
\* counters and the return value after the loop, or False from the outer
\* except with the counters as they were
migrate_job_postings(m, job_data, dry_run) ==
    LET done == MigrateFrom([job_postings |-> m.job_postings, validated |-> 0, raised |-> FALSE,
                             success_count |-> 0, failed_count |-> 0, skipped |-> 0], job_data, 1, dry_run)
    IN  [migration_stats |-> IF done.raised THEN [m.migration_stats EXCEPT !.jobs_total = Len(job_data)]
                             ELSE [jobs_total |-> Len(job_data), jobs_migrated |-> done.success_count,
                                   jobs_failed |-> done.failed_count],
         job_postings |-> done.job_postings,
         call |-> [op |-> "migrate_job_postings", job_data |-> job_data, dry_run |-> dry_run,
                   returned |-> ~done.raised /\ done.failed_count = 0,
                   validated |-> done.validated, raised |-> done.raised,
                   success_count |-> done.success_count, failed_count |-> done.failed_count, skipped |-> done.skipped]]

\* the job_postings table as earlier runs of the script left it
MigratedTables == {<<>>, <<[id |-> "a", url |-> "u2"]>>, <<[id |-> "uuid0", url |-> "u1"]>>}

\* DataMigrator() with the database connected
InitMigrate ==
    /\ config = [migration_mode |-> "json_only", probe_ok |-> TRUE]
    /\ migration_mode = "json_only"
    /\ ApiInit
    /\ json_file = <<>>
    /\ db_rows = <<>>
    /\ listings_json = <<>>
    /\ last = NoRun
    /\ clean = 0
    /\ injected = 0
    /\ current_jobs_in = <<>>
    /\ previous_jobs_in = <<>>
    /\ detected = NotDetected
    /\ migrator \in {[NotMigrating EXCEPT !.job_postings = table] : table \in MigratedTables}
    /\ BotInit

\* migrator.migrate_job_postings(job_data, dry_run), once per run of the script
MigrateJobPostings(job_data, dry_run) ==
    /\ migrator.call.op = "none"
    /\ migrator' = migrate_job_postings(migrator, job_data, dry_run)
    /\ UNCHANGED <<storage_vars, detect_vars, config, api_vars, bot_vars>>

NextMigrate ==
    \E job_data \in MigrationBatches, dry_run \in BOOLEAN : MigrateJobPostings(job_data, dry_run)

SpecMigrate == InitMigrate /\ [][NextMigrate]_vars

\* a record that is to fail validation: company_name, title or url missing
\* or empty, or a field of the wrong type
Malformed(job) ==
    \/ \E field \in {"company_name", "title", "url"} : field \notin DOMAIN job \/ ~Truthy(job[field])
    \/ "locations" \in DOMAIN job /\ ~IsList(job["locations"])
    \/ "terms" \in DOMAIN job /\ ~IsList(job["terms"])
    \/ "active" \in DOMAIN job /\ ~IsBool(job["active"])
    \/ "date_posted" \in DOMAIN job /\ float_outcome(job["date_posted"]) # "float"

\* the records of the batch that are to fail validation
Rejected(job_data) == {i \in 1..Len(job_data) : Malformed(job_data[i])}

\* C40 (migration batch): after migrate_job_postings every record of the
\* input has been validated, every record that fails validation is counted
\* in jobs_failed, the call returned True exactly when no record failed, and
\* jobs_migrated + jobs_failed <= jobs_total
C40_BatchSemantics ==
    migrator.call.op = "migrate_job_postings" =>
        /\ migrator.call.validated = Len(migrator.call.job_data)
        /\ migrator.migration_stats.jobs_total = Len(migrator.call.job_data)
        /\ migrator.migration_stats.jobs_failed >= Cardinality(Rejected(migrator.call.job_data))
        /\ migrator.call.returned <=> migrator.migration_stats.jobs_failed = 0
        /\ migrator.migration_stats.jobs_migrated + migrator.migration_stats.jobs_failed
               <= migrator.migration_stats.jobs_total

\* the same of the calls in which validate_job_data raised nothing
C40_BatchSemantics_Validated ==
    (migrator.call.op = "migrate_job_postings" /\ ~migrator.call.raised) =>
        /\ migrator.call.validated = Len(migrator.call.job_data)
        /\ migrator.migration_stats.jobs_total = Len(migrator.call.job_data)
        /\ migrator.migration_stats.jobs_failed >= Cardinality(Rejected(migrator.call.job_data))
        /\ migrator.call.returned <=> migrator.migration_stats.jobs_failed = 0
        /\ migrator.migration_stats.jobs_migrated + migrator.migration_stats.jobs_failed
               <= migrator.migration_stats.jobs_total

====
